---- MODULE Spec2Model ----
(***************************************************************************)
(* Feature-flag evaluation service (ooh-togglie).                          *)
(*                                                                         *)
(* The repository holds four workers:                                      *)
(*   "rs"      edge-api-worker-rs/index.ts      (D1 + in-process buckets)  *)
(*   "rs_src"  edge-api-worker-rs/src/index.ts  (D1 + in-process buckets)  *)
(*   "upstash" unnamed/part_001                 (Neon + Upstash counters)  *)
(*   "edge"    edge-worker/src/indrx.ts         (Upstash counters)         *)
(*                                                                         *)
(* SpecRL   the admission controller (rateLimit) of each worker            *)
(* Spec     the request handlers of the two D1 workers                     *)
(* SpecOrch the evaluate operation alone, with fair handler steps          *)
(* SpecEval the rollout decision of POST /v1/evaluate                      *)
(***************************************************************************)
EXTENDS Integers, Sequences, FiniteSets, TLC

VARIABLES
    worker,     \* which worker of the repository is deployed
    env,        \* c.env: the bindings of the deployment
    clock,      \* Date.now(), in milliseconds
    rlBuckets,  \* the in-process Map of rate-limit buckets
    redis,      \* the Upstash counter store: key -> [count, expireAt]
    rl,         \* the last rateLimit call and what it returned
    hist,       \* per bucket: what the checks of that window did so far
    flags,      \* the D1 table flags: key -> row (key is UNIQUE)
    events,     \* the number of rows of the D1 table events
    items,      \* the D1 table items: a set of rows
    nextId,     \* the identifiers crypto.randomUUID() has handed out
    req,        \* the request being handled, and its response once done
    memo,       \* the evaluations decided so far: [fe, pct, uid, at, version, enabled]
    probe,      \* SpecBucket: an identifier and what the evaluator computes from it
    tasks,      \* SpecConc: the handlers that run concurrently, by statement
    vlog,       \* every change of the flags table so far: [op, row], in order
    issued,     \* the ETags sent with a flag so far: [tag, row]
    metrics     \* HTTP_401_TOTAL and HTTP_429_TOTAL of index.ts

rlVars == <<worker, env, clock, rlBuckets, redis, rl, hist>>
orchVars == <<flags, events, items, nextId, req, memo>>
auxVars == <<probe, tasks, vlog, issued, metrics>>

(* ------------------------------ bounds -------------------------------- *)

MaxTime == 3      \* seconds of wall clock that are explored
TickMs == 750     \* the clock advances in steps of TickMs milliseconds
MaxCalls == 3     \* rateLimit calls per behaviour
MaxLimit == 2     \* RL_LIMIT ranges over 0..MaxLimit
MinWindow == 2    \* RL_WINDOW ranges over MinWindow..MinWindow+1

(* ------------------------- program constants -------------------------- *)

MsPerSec == 1000
DefaultLimit == 60
DefaultWindow == 60

(* ------------------------------ c.env --------------------------------- *)

\* A numeric binding is <<>> when unset and <<n>> when set to the digits of n;
\* a string binding is "" when unset.
NumberOr(binding, default) == IF binding = <<>> THEN default ELSE binding[1]

LIMIT == NumberOr(env.RL_LIMIT, DefaultLimit)
WINDOW == NumberOr(env.RL_WINDOW, DefaultWindow)

ApiKey == "key-good"

BaseEnv ==
    [RL_LIMIT |-> <<1>>, RL_WINDOW |-> <<MinWindow>>, DISABLE_RATE_LIMIT |-> "",
     API_KEY |-> ApiKey, EDGE_API_KEY |-> "", DEMO_MODE |-> "",
     ROLLOUT_PCT |-> <<>>,
     SHOW_ADMIN |-> "", ADMIN_USER |-> "admin", ADMIN_PASS |-> "secret",
     UPSTASH_REDIS_REST_URL |-> "", UPSTASH_REDIS_REST_TOKEN |-> ""]

(* --------------------------- time helpers ----------------------------- *)

NowFloor == clock \div MsPerSec                      \* Math.floor(Date.now() / 1000)
NowCeil == (clock + (MsPerSec - 1)) \div MsPerSec    \* Math.ceil(Date.now() / 1000)

bucketKey(key, windowId) == "rl:" \o key \o ":" \o ToString(windowId)

\* The value every fail-open return statement builds.
FailOpen(windowSec) ==
    [ok |-> TRUE, count |-> 0, resetUnix |-> NowCeil + windowSec]

(* ------------------ rateLimit, in-process buckets --------------------- *)

\* Mutant: the window of a bucket starts with its first check.
rateLimit_ResetFromNow(key, limit, windowSec) ==
    IF env.DISABLE_RATE_LIMIT = "1"
    THEN [res |-> FailOpen(windowSec), buckets |-> rlBuckets, path |-> "disabled"]
    ELSE
      LET now == NowFloor
          windowId == now \div windowSec
          bk == bucketKey(key, windowId)
          resetUnix == now + windowSec
      IN IF bk \notin DOMAIN rlBuckets
         THEN [res |-> [ok |-> TRUE, count |-> 1, resetUnix |-> resetUnix],
               buckets |-> rlBuckets @@ (bk :> [count |-> 1, resetUnix |-> resetUnix]),
               path |-> "counted"]
         ELSE LET c == rlBuckets[bk].count + 1
              IN [res |-> [ok |-> c <= limit, count |-> c,
                           resetUnix |-> rlBuckets[bk].resetUnix],
                  buckets |-> [rlBuckets EXCEPT ![bk].count = c],
                  path |-> "counted"]

\* Mutant: the bucket key leaves the window out, so a count outlives its window.
rateLimit_NoWindow(key, limit, windowSec) ==
    IF env.DISABLE_RATE_LIMIT = "1"
    THEN [res |-> FailOpen(windowSec), buckets |-> rlBuckets, path |-> "disabled"]
    ELSE
      LET now == NowFloor
          windowId == now \div windowSec
          bk == "rl:" \o key
          resetUnix == windowId * windowSec + windowSec
      IN IF bk \notin DOMAIN rlBuckets
         THEN [res |-> [ok |-> TRUE, count |-> 1, resetUnix |-> resetUnix],
               buckets |-> rlBuckets @@ (bk :> [count |-> 1, resetUnix |-> resetUnix]),
               path |-> "counted"]
         ELSE LET c == rlBuckets[bk].count + 1
              IN [res |-> [ok |-> c <= limit, count |-> c,
                           resetUnix |-> rlBuckets[bk].resetUnix],
                  buckets |-> [rlBuckets EXCEPT ![bk].count = c],
                  path |-> "counted"]

\* Mutant: off by one in the comparison with the limit.
rateLimit_OffByOne(key, limit, windowSec) ==
    IF env.DISABLE_RATE_LIMIT = "1"
    THEN [res |-> FailOpen(windowSec), buckets |-> rlBuckets, path |-> "disabled"]
    ELSE
      LET now == NowFloor
          windowId == now \div windowSec
          bk == bucketKey(key, windowId)
          resetUnix == windowId * windowSec + windowSec
      IN IF bk \notin DOMAIN rlBuckets
         THEN [res |-> [ok |-> TRUE, count |-> 1, resetUnix |-> resetUnix],
               buckets |-> rlBuckets @@ (bk :> [count |-> 1, resetUnix |-> resetUnix]),
               path |-> "counted"]
         ELSE LET c == rlBuckets[bk].count + 1
              IN [res |-> [ok |-> c < limit, count |-> c,
                           resetUnix |-> rlBuckets[bk].resetUnix],
                  buckets |-> [rlBuckets EXCEPT ![bk].count = c],
                  path |-> "counted"]

\* rateLimit(c, key, limit, windowSec) of the D1 workers: what it returns (res),
\* the Map after the call (buckets) and the return statement taken (path).
rateLimit(key, limit, windowSec) ==
    IF env.DISABLE_RATE_LIMIT = "1"
    THEN [res |-> FailOpen(windowSec), buckets |-> rlBuckets, path |-> "disabled"]
    ELSE
      LET now == NowFloor
          windowId == now \div windowSec
          bk == bucketKey(key, windowId)
          resetUnix == windowId * windowSec + windowSec
      IN IF bk \notin DOMAIN rlBuckets
         THEN [res |-> [ok |-> TRUE, count |-> 1, resetUnix |-> resetUnix],
               buckets |-> rlBuckets @@ (bk :> [count |-> 1, resetUnix |-> resetUnix]),
               path |-> "counted"]
         ELSE LET c == rlBuckets[bk].count + 1
              IN [res |-> [ok |-> c <= limit, count |-> c,
                           resetUnix |-> rlBuckets[bk].resetUnix],
                  buckets |-> [rlBuckets EXCEPT ![bk].count = c],
                  path |-> "counted"]

\* rateLimit of edge-api-worker-rs/src/index.ts: the same text as the one above.
rateLimitSrc(key, limit, windowSec) == rateLimit(key, limit, windowSec)

(* ---------------------- the Upstash counter store --------------------- *)

\* A key's expireAt is <<>> (no time to live) or <<ms>>.
NoExpiry == <<>>

\* INCR: creates the key at 1 (without a time to live) or adds one.
RedisIncr(store, k) ==
    IF k \in DOMAIN store
    THEN [store EXCEPT ![k].count = @ + 1]
    ELSE store @@ (k :> [count |-> 1, expireAt |-> NoExpiry])

\* EXPIRE k seconds: the key disappears `seconds` from now.
RedisExpire(store, k, seconds) ==
    IF k \in DOMAIN store
    THEN [store EXCEPT ![k].expireAt = <<clock + seconds * MsPerSec>>]
    ELSE store

\* The keys still alive at time ms.
RedisAlive(store, ms) ==
    LET live == {k \in DOMAIN store :
                    store[k].expireAt = NoExpiry \/ store[k].expireAt[1] > ms}
    IN [k \in live |-> store[k]]

\* How a call to the store can end: it succeeds, or it fails (the store is
\* unreachable, the request is refused) and the client's promise rejects.
IncrOutcomes == {"ok", "fail"}
ExpireOutcomes == {"ok", "fail"}

(* ------------------ rateLimit, unnamed/part_001 ----------------------- *)

rateLimitUpstash(key, limit, windowSec, incrOut, expOut) ==
    IF env.DISABLE_RATE_LIMIT = "1"
    THEN [res |-> FailOpen(windowSec), store |-> redis, path |-> "disabled",
          threw |-> FALSE]
    ELSE IF env.UPSTASH_REDIS_REST_URL = "" \/ env.UPSTASH_REDIS_REST_TOKEN = ""
    THEN [res |-> FailOpen(windowSec), store |-> redis, path |-> "unconfigured",
          threw |-> FALSE]
    ELSE
      LET now == NowFloor
          windowKey == bucketKey(key, now \div windowSec)
          afterIncr == IF incrOut = "fail" THEN redis ELSE RedisIncr(redis, windowKey)
          afterExp == IF expOut = "fail" THEN afterIncr
                      ELSE RedisExpire(afterIncr, windowKey, windowSec)
      IN IF incrOut # "ok"
         THEN [res |-> FailOpen(windowSec), store |-> afterIncr,
               path |-> "incr_failed", threw |-> FALSE]
         ELSE LET count == afterIncr[windowKey].count
                  resetUnix == (now \div windowSec) * windowSec + windowSec
              IN IF count = 1 /\ expOut # "ok"
                 THEN [res |-> FailOpen(windowSec), store |-> afterExp,
                       path |-> "expire_failed", threw |-> FALSE]
                 ELSE [res |-> [ok |-> count <= limit, count |-> count,
                                resetUnix |-> resetUnix],
                       store |-> IF count = 1 THEN afterExp ELSE afterIncr,
                       path |-> "counted", threw |-> FALSE]

(* ------------------ rateLimit, edge-worker/src/indrx.ts --------------- *)

\* The helper returns a boolean and has no try/catch: a rejected store call
\* rejects the helper's promise (threw). res.count is the count it read.
rateLimitEdge(key, limit, windowSec, incrOut, expOut) ==
    LET now == NowFloor
        windowKey == bucketKey(key, now \div windowSec)
        afterIncr == IF incrOut = "fail" THEN redis ELSE RedisIncr(redis, windowKey)
        afterExp == IF expOut = "fail" THEN afterIncr
                    ELSE RedisExpire(afterIncr, windowKey, windowSec)
        resetUnix == (now \div windowSec) * windowSec + windowSec
    IN IF incrOut # "ok"
       THEN [res |-> [ok |-> FALSE, count |-> 0, resetUnix |-> resetUnix],
             store |-> afterIncr, path |-> "incr_failed", threw |-> TRUE]
       ELSE LET count == afterIncr[windowKey].count
            IN IF count = 1 /\ expOut # "ok"
               THEN [res |-> [ok |-> FALSE, count |-> count, resetUnix |-> resetUnix],
                     store |-> afterExp, path |-> "expire_failed", threw |-> TRUE]
               ELSE [res |-> [ok |-> count <= limit, count |-> count,
                              resetUnix |-> resetUnix],
                     store |-> IF count = 1 THEN afterExp ELSE afterIncr,
                     path |-> "counted", threw |-> FALSE]

(* --------------------- SpecRL: state and actions ---------------------- *)

\* The keys the handlers pass to rateLimit: `${scope}:${caller}`.
RLKeys == {"eval:" \o ApiKey, "items:" \o ApiKey}

\* let HTTP_401_TOTAL = 0; let HTTP_429_TOTAL = 0
NoMetrics == [http_401_total |-> 0, http_429_total |-> 0]

\* HTTP_401_TOTAL++ in Unauthorized and HTTP_429_TOTAL++ in tooMany of
\* index.ts; src/index.ts answers with c.json and keeps no such counters.
Bumped(m, status) ==
    IF worker # "rs" THEN m
    ELSE IF status = 401 THEN [m EXCEPT !.http_401_total = @ + 1]
    ELSE IF status = 429 THEN [m EXCEPT !.http_429_total = @ + 1]
    ELSE m

NoCall ==
    [seq |-> 0, key |-> "", bucket |-> "", limit |-> 0, windowSec |-> 0,
     ok |-> TRUE, count |-> 0, resetUnix |-> 0, threw |-> FALSE,
     path |-> "none", nth |-> 0, windowId |-> 0]

NoHist == [n |-> 0, incrOk |-> TRUE, denied |-> FALSE]
HistOf(b) == IF b \in DOMAIN hist THEN hist[b] ELSE NoHist

\* The record of one rateLimit call, and the bookkeeping of its bucket.
Called(key, limit, windowSec, r, threw) ==
    LET b == bucketKey(key, NowFloor \div windowSec)
        h == HistOf(b)
        h2 == [n |-> h.n + 1,
               incrOk |-> h.incrOk /\ r.path \in {"counted", "expire_failed"},
               denied |-> h.denied \/ ~r.res.ok]
    IN /\ rl' = [seq |-> rl.seq + 1, key |-> key, bucket |-> b, limit |-> limit,
                 windowSec |-> windowSec, ok |-> r.res.ok, count |-> r.res.count,
                 resetUnix |-> r.res.resetUnix, threw |-> threw, path |-> r.path,
                 nth |-> h2.n, windowId |-> NowFloor \div windowSec]
       /\ hist' = [k \in DOMAIN hist \cup {b} |-> IF k = b THEN h2 ELSE hist[k]]

RLEnvs ==
    {[BaseEnv EXCEPT !.RL_LIMIT = <<l>>, !.RL_WINDOW = <<w>>,
                     !.DISABLE_RATE_LIMIT = d,
                     !.UPSTASH_REDIS_REST_URL = u, !.UPSTASH_REDIS_REST_TOKEN = u] :
        l \in 0..MaxLimit, w \in MinWindow..(MinWindow + 1), d \in {"", "1"},
        u \in {"", "set"}}

\* The rows the table holds when the worker starts, as a log.
StoredLog(f) == [i \in 1..Cardinality(DOMAIN f) |->
                    [op |-> "stored", row |-> f[CHOOSE k \in DOMAIN f : TRUE]]]

InitRL ==
    /\ worker \in {"rs", "rs_src", "upstash", "edge"}
    /\ env \in RLEnvs
    /\ worker \in {"rs", "rs_src"} => env.UPSTASH_REDIS_REST_URL = ""
    /\ worker = "edge" => env = [BaseEnv EXCEPT !.UPSTASH_REDIS_REST_URL = "set",
                                                !.UPSTASH_REDIS_REST_TOKEN = "set"]
    /\ clock = 0
    /\ rlBuckets = <<>>
    /\ redis = <<>>
    /\ rl = NoCall
    /\ hist = <<>>
    /\ flags = <<>>
    /\ events = 0
    /\ items = {}
    /\ nextId = 0
    /\ req = <<>>
    /\ memo = {}
    /\ probe = <<>>
    /\ tasks = <<>>
    /\ vlog = StoredLog(flags)
    /\ issued = {}
    /\ metrics = NoMetrics

\* Time passes; the store drops the keys whose time to live has run out.
Tick ==
    /\ clock + TickMs <= MaxTime * MsPerSec
    /\ clock' = clock + TickMs
    /\ redis' = RedisAlive(redis, clock')
    /\ UNCHANGED <<worker, env, rlBuckets, rl, hist>>
    /\ UNCHANGED <<orchVars, auxVars>>

CheckMem(key) ==
    /\ worker \in {"rs", "rs_src"}
    /\ rl.seq < MaxCalls
    /\ LET r == IF worker = "rs" THEN rateLimit(key, LIMIT, WINDOW)
                ELSE rateLimitSrc(key, LIMIT, WINDOW)
       IN /\ rlBuckets' = r.buckets
          /\ Called(key, LIMIT, WINDOW, r, FALSE)
    /\ UNCHANGED <<worker, env, clock, redis>>
    /\ UNCHANGED <<orchVars, auxVars>>

CheckUpstash(key, incrOut, expOut) ==
    /\ worker = "upstash"
    /\ rl.seq < MaxCalls
    /\ LET r == rateLimitUpstash(key, LIMIT, WINDOW, incrOut, expOut)
       IN /\ redis' = r.store
          /\ Called(key, LIMIT, WINDOW, r, r.threw)
    /\ UNCHANGED <<worker, env, clock, rlBuckets>>
    /\ UNCHANGED <<orchVars, auxVars>>

CheckEdge(key, incrOut, expOut) ==
    /\ worker = "edge"
    /\ rl.seq < MaxCalls
    /\ LET r == rateLimitEdge(key, DefaultLimit, DefaultWindow, incrOut, expOut)
       IN /\ redis' = r.store
          /\ Called(key, DefaultLimit, DefaultWindow, r, r.threw)
    /\ UNCHANGED <<worker, env, clock, rlBuckets>>
    /\ UNCHANGED <<orchVars, auxVars>>

NextRL ==
    \/ Tick
    \/ \E key \in RLKeys : CheckMem(key)
    \/ \E key \in RLKeys, i \in IncrOutcomes, e \in ExpireOutcomes :
          CheckUpstash(key, i, e)
    \/ \E key \in RLKeys, i \in IncrOutcomes, e \in ExpireOutcomes :
          CheckEdge(key, i, e)

vars == <<worker, env, clock, rlBuckets, redis, rl, hist,
          flags, events, items, nextId, req, memo, probe, tasks, vlog, issued,
          metrics>>

SpecRL == InitRL /\ [][NextRL]_vars

(* ======================= the admission controller ===================== *)

InProcess == worker \in {"rs", "rs_src"}
RLEnabled == env.DISABLE_RATE_LIMIT # "1"
StoreConfigured ==
    InProcess \/ (env.UPSTASH_REDIS_REST_URL # "" /\ env.UPSTASH_REDIS_REST_TOKEN # "")
FailOpenPaths == {"disabled", "unconfigured", "incr_failed", "expire_failed"}

C2_AllowedInNextWindow ==
    (InProcess /\ rl.path # "none" /\ rl.limit >= 1 /\ rl.nth = 1
        /\ HistOf(bucketKey(rl.key, rl.windowId - 1)).denied)
    => (rl.ok /\ rl.count = 1 /\ rlBuckets[rl.bucket].count = 1)

\* C2 witness: the first check of the window after one with a denial.
C2_Witness ==
    /\ InProcess /\ rl.nth = 1 /\ rl.limit >= 1 /\ rl.ok
    /\ HistOf(bucketKey(rl.key, rl.windowId - 1)).denied

\* C3 as stated: when a counter-store call fails (or the store is not
\* configured) the check returns allowed = true, count = 0 and nothing is
\* thrown, in every helper that talks to the remote store.
\* (Fails on edge-worker/src/indrx.ts, whose helper has no try/catch.)
C3_AsClaimed ==
    (worker \in {"upstash", "edge"} /\ RLEnabled
        /\ rl.path \in {"unconfigured", "incr_failed", "expire_failed"})
    => (rl.ok /\ rl.count = 0 /\ ~rl.threw)

\* The same for the helper of unnamed/part_001 alone, where it holds.
C3_Upstash ==
    (worker = "upstash" /\ RLEnabled
        /\ rl.path \in {"unconfigured", "incr_failed", "expire_failed"})
    => (rl.ok /\ rl.count = 0 /\ ~rl.threw)

\* C4 as stated: a check that takes the fail-open path changes no bucket and
\* returns allowed = true, count = 0, resetUnixTime = now + windowSeconds.
\* (Fails on unnamed/part_001: when EXPIRE fails the INCR has been applied.)
C4_AsClaimed ==
    [][(rl'.seq # rl.seq /\ worker \in {"rs", "rs_src", "upstash"}
          /\ rl'.path \in FailOpenPaths)
       => (/\ rlBuckets' = rlBuckets
           /\ redis' = redis
           /\ rl'.ok /\ rl'.count = 0
           /\ rl'.resetUnix = NowCeil + rl'.windowSec)]_vars

\* The same without the failed EXPIRE, where it holds.
C4_OtherCauses ==
    [][(rl'.seq # rl.seq /\ worker \in {"rs", "rs_src", "upstash"}
          /\ rl'.path \in (FailOpenPaths \ {"expire_failed"}))
       => (/\ rlBuckets' = rlBuckets
           /\ redis' = redis
           /\ rl'.ok /\ rl'.count = 0
           /\ rl'.resetUnix = NowCeil + rl'.windowSec)]_vars

(* ========================= the request handlers ======================= *)

EdgeKey == "key-edge"

\* c.req.header('cf-connecting-ip') of the request in flight.
ConnectingIp == req.ip

Max(a, b) == IF a >= b THEN a ELSE b
Min(a, b) == IF a <= b THEN a ELSE b

\* const want = c.env.API_KEY || c.env.EDGE_API_KEY || ''
Want == IF env.API_KEY # "" THEN env.API_KEY ELSE env.EDGE_API_KEY

\* Mutant: demo mode lets a request through without its key.
apiKeyMatches_DemoSkips(sent) ==
    env.DEMO_MODE = "1" \/ (sent # "" /\ Want # "" /\ sent = Want)

apiKeyMatches(sent) == sent # "" /\ Want # "" /\ sent = Want

demoOn == env.DEMO_MODE = "1"

\* Mutant: the address is preferred to the key.
callerOf_IpFirst(sent) ==
    IF ConnectingIp # "" THEN ConnectingIp ELSE IF sent # "" THEN sent ELSE "anon"

\* c.req.header('x-api-key') || c.req.header('cf-connecting-ip') || 'anon'
callerOf(sent) ==
    IF sent # "" THEN sent ELSE IF ConnectingIp # "" THEN ConnectingIp ELSE "anon"

(* ------------------------- the rollout decision ----------------------- *)

DefaultRollout == 10       \* Number(c.env.ROLLOUT_PCT ?? 10), index.ts
DefaultRolloutSrc == 100   \* Number(c.env.ROLLOUT_PCT ?? 100), src/index.ts

\* ch.charCodeAt(0) of every character of the user ids the model sends.
charCodes(uid) ==
    CASE uid = "" -> <<>>
      [] uid = "anon" -> <<97, 110, 111, 110>>
      [] uid = "user-123" -> <<117, 115, 101, 114, 45, 49, 50, 51>>
      [] uid = "user-1" -> <<117, 115, 101, 114, 45, 49>>
      [] uid = "c" -> <<99>>
      [] uid = "d" -> <<100>>
      [] uid = "polygenelubricants" ->
            <<112, 111, 108, 121, 103, 101, 110, 101, 108,
              117, 98, 114, 105, 99, 97, 110, 116, 115>>

\* A 32-bit integer is kept as <<hi, lo>>, its two 16-bit halves (two's
\* complement), so that no intermediate value leaves TLC's integers.
Half == 2 ^ 16

\* (((a << 5) - a) + ch) | 0, that is (31 * a + ch) wrapped to 32 bits.
hashStep(a, ch) ==
    LET lo2 == a[2] * 31 + ch
        hi2 == a[1] * 31 + (lo2 \div Half)
    IN <<hi2 % Half, lo2 % Half>>

\* [...uid].reduce(step, 0). Each step's value is bound through a singleton
\* set, so that it is computed once.
RECURSIVE reduce(_, _)
reduce(a, codes) ==
    IF codes = <<>> THEN a
    ELSE CHOOSE h \in {reduce(n, Tail(codes)) : n \in {hashStep(a, Head(codes))}} : TRUE

\* Mutant: the absolute value is taken by flipping the bits.
abs32_FlipsBits(a) ==
    IF a[1] < Half \div 2 THEN a
    ELSE <<(Half - 1) - a[1], (Half - 1) - a[2]>>

\* Math.abs of the signed value: a double, so abs(-2^31) is 2^31.
abs32(a) ==
    IF a[1] < Half \div 2 THEN a
    ELSE IF a[2] = 0 THEN <<Half - a[1], 0>>
    ELSE <<(Half - 1) - a[1], Half - a[2]>>

\* (hi * 2^16 + lo) % 100
mod100(a) == ((a[1] % 100) * (Half % 100) + a[2]) % 100

\* Mutant: the bucket is salted with the current second.
hashOf_Salted(uid) == (mod100(abs32(reduce(<<0, 0>>, charCodes(uid)))) + NowFloor) % 100

\* Math.abs([...uid].reduce(step, 0)) % 100, of the char codes of uid
bucketOf(codes) == mod100(abs32(reduce(<<0, 0>>, codes)))

hashOf(uid) == bucketOf(charCodes(uid))

\* Math.max(0, Math.min(100, Number(c.env.ROLLOUT_PCT ?? default)))
pctOf ==
    Max(0, Min(100, NumberOr(env.ROLLOUT_PCT,
                             IF worker = "rs" THEN DefaultRollout ELSE DefaultRolloutSrc)))

\* Mutant: the comparison admits the bucket equal to the percentage.
enabledFor_Inclusive(flagEnabled, uid, pct) == flagEnabled # 0 /\ hashOf(uid) <= pct

\* !!flag.enabled && hash < pct, of a bucket already computed
\* Mutant: the comparison of the bucket with the percentage is turned round.
enabledAt_Reversed(flagEnabled, bucket, pct) == flagEnabled # 0 /\ bucket > pct

enabledAt(flagEnabled, bucket, pct) == flagEnabled # 0 /\ bucket < pct

\* const enabled = !!flag.enabled && hash < pct
enabledFor(flagEnabled, uid, pct) == enabledAt(flagEnabled, hashOf(uid), pct)

(* ----------------------------- requests ------------------------------- *)

MaxReqs == 2      \* requests per behaviour

FlagKeys == {"welcome_banner", "beta"}

MaxEvals == 3     \* requests per behaviour of SpecEval

\* user.id of the evaluate requests (hash % 100: 72, 99, 0, 48).
UserIds == {"user-123", "c", "d", "polygenelubricants"}

\* The optional `user` of EvalReq: <<>> when the body has none, else the
\* object, whose optional id is <<>> or <<string>>.
User(id) == <<[id |-> <<id>>]>>
UserNoId == <<[id |-> <<>>]>>

\* Mutant: a user object without id is the user whose id is "".
uidOf_EmptyId(user) ==
    IF user = <<>> THEN "anon"
    ELSE IF user[1].id = <<>> THEN "" ELSE user[1].id[1]

\* const uid = user?.id ?? 'anon'
uidOf(user) ==
    IF user = <<>> THEN "anon"
    ELSE IF user[1].id = <<>> THEN "anon" ELSE user[1].id[1]

\* The routes each worker registers (those the model sends requests to).
Routes(w) ==
    IF w = "rs"
    THEN {"GET /v1/flags", "GET /v1/flags/{key}", "POST /v1/flags",
          "PUT /v1/flags/{key}", "POST /v1/evaluate", "POST /v1/events",
          "GET /v1/items", "POST /v1/items", "GET /demo/eval"}
    ELSE {"GET /v1/flags", "POST /v1/flags", "PUT /v1/flags/{key}",
          "POST /v1/evaluate", "GET /demo/eval"}

\* The routes whose handler calls rateLimit, with the scope of its key.
Scope(route) ==
    CASE route = "POST /v1/evaluate" -> "eval"
      [] route = "GET /v1/flags/{key}" -> "flag"
      [] route \in {"GET /v1/items", "POST /v1/items"} -> "items"
      [] OTHER -> ""

\* An optional field is <<>> when absent and <<v>> when present.
NoHdr == [limit |-> <<>>, remaining |-> <<>>, reset |-> <<>>, retry |-> <<>>]

IdleReq ==
    [n |-> 0, pc |-> "idle", route |-> "", sent |-> "", ip |-> "",
     viaDemo |-> FALSE, key |-> "", user |-> <<>>, description |-> <<>>, enabled |-> <<>>,
     nevents |-> 0, inm |-> <<>>, basic |-> <<>>,
     stages |-> <<>>, db |-> 0, rlc |-> 0, rlCount |-> 0, rlOk |-> TRUE,
     row |-> <<>>, out |-> <<>>, etag |-> <<>>,
     status |-> 0, hdr |-> NoHdr, retry_after |-> <<>>]

\* An optional, nullable string of a body: <<>> when absent, JsonNull when
\* null, Str(s) when it is the string s. A column holds <<>> (NULL) or <<s>>.
Str(s) == <<[v |-> <<s>>]>>
JsonNull == <<[v |-> <<>>]>>

\* body.description ?? null
orNull(d) == IF d = <<>> THEN <<>> ELSE d[1].v

\* The requests the model sends: the route, and the fields its handler reads.
Inputs(route) ==
    LET R(k, u, d, e, n, m) ==
            [route |-> route, key |-> k, user |-> u, description |-> d,
             enabled |-> e, nevents |-> n, inm |-> m]
    IN CASE route = "GET /v1/flags/{key}" ->
              {R("welcome_banner", <<>>, <<>>, <<>>, 0, m) :
                  m \in {<<>>} \cup {<<i.tag>> : i \in issued}}
                 \cup {R("beta", <<>>, <<>>, <<>>, 0, <<>>)}
         [] route = "POST /v1/flags" ->
              {R("welcome_banner", <<>>, <<>>, <<>>, 0, <<>>),
               R("beta", <<>>, Str("new"), <<TRUE>>, 0, <<>>)}
         [] route = "PUT /v1/flags/{key}" ->
              {R("welcome_banner", <<>>, <<>>, <<FALSE>>, 0, <<>>)}
                 \cup {R(k, <<>>, Str("text"), <<>>, 0, <<>>) : k \in FlagKeys}
         [] route = "POST /v1/evaluate" ->
              {R("welcome_banner", User("user-123"), <<>>, <<>>, 0, <<>>),
               R("welcome_banner", <<>>, <<>>, <<>>, 0, <<>>),
               R("beta", User("user-1"), <<>>, <<>>, 0, <<>>)}
         [] route = "GET /demo/eval" ->
              {R("welcome_banner", User("user-123"), <<>>, <<>>, 0, <<>>),
               R("beta", User("d"), <<>>, <<>>, 0, <<>>)}
         [] route = "POST /v1/events" -> {R("", <<>>, <<>>, <<>>, 2, <<>>)}
         [] OTHER -> {R("", <<>>, <<>>, <<>>, 0, <<>>)}

\* The x-api-key header of a request: absent, or one of two keys.
SentKeys == {"", ApiKey, EdgeKey}

\* The response is complete; /demo/eval still has to wrap the inner one.
Fin(r, status) ==
    [r EXCEPT !.status = status, !.pc = IF r.viaDemo THEN "wrap" ELSE "done"]

Stage(r, name) == [r EXCEPT !.stages = Append(@, name)]

\* The handler context of a new request.
NewReq(in, sent) ==
    [IdleReq EXCEPT
       !.n = req.n + 1,
       !.pc = IF in.route = "GET /demo/eval" THEN "demo"
              ELSE IF in.route \in {"POST /admin/flags/delete", "GET /debug/env"}
              THEN "handler"
              ELSE "auth",
       !.basic = IF "basic" \in DOMAIN in THEN in.basic ELSE <<>>,
       !.route = in.route, !.sent = sent, !.key = in.key,
       !.user = in.user, !.description = in.description,
       !.enabled = in.enabled, !.nevents = in.nevents, !.inm = in.inm]

\* EnvSchema.parse(e) returns: the numeric strings are numbers already, the
\* keys of the model have 8 characters, and superRefine raises no issue.
EnvValid(e) ==
    /\ e.API_KEY # "" \/ e.EDGE_API_KEY # ""
    /\ e.ROLLOUT_PCT # <<>> => ~(e.ROLLOUT_PCT[1] < 0 \/ e.ROLLOUT_PCT[1] > 100)

\* app.use('*', ...): EnvSchema.parse(c.env) throws before next(), and the
\* request that no handler has seen is answered 500.
Arrive(in, sent) ==
    IF EnvValid(env) THEN NewReq(in, sent)
    ELSE [NewReq(in, sent) EXCEPT !.pc = "done", !.status = 500]

\* A request of `inputs` arrives with one of the keys `sents` (the worker
\* handles one request at a time here), unless `budget` requests were sent.
Begin(inputs, sents, budget) ==
    /\ req.pc \in {"idle", "done"}
    /\ req.n < budget
    /\ \E in \in inputs, sent \in sents : req' = Arrive(in, sent)
    /\ UNCHANGED <<rlVars, auxVars, flags, events, items, nextId, memo>>

BeginRequest ==
    Begin(UNION {Inputs(route) : route \in Routes(worker)}, SentKeys, MaxReqs)

\* GET /demo/eval: 404 unless demo mode is on; otherwise it sends itself a
\* POST /v1/evaluate that carries the configured key.
Demo ==
    /\ req.pc = "demo"
    /\ req' = IF ~demoOn THEN [req EXCEPT !.status = 404, !.pc = "done"]
              ELSE [req EXCEPT !.pc = "auth", !.viaDemo = TRUE,
                               !.route = "POST /v1/evaluate", !.sent = Want]
    /\ UNCHANGED <<rlVars, auxVars, flags, events, items, nextId, memo>>

\* Mutant: a request for a flag that is not stored is told so before its
\* key is looked at.
Authenticate_AfterLookup ==
    /\ req.pc = "auth"
    /\ req' = IF req.route = "GET /v1/flags/{key}" /\ req.key \notin DOMAIN flags
              THEN Fin(Stage(req, "Authenticate"), 404)
              ELSE IF ~apiKeyMatches(req.sent)
              THEN Fin(Stage(req, "Authenticate"), 401)
              ELSE [Stage(req, "Authenticate") EXCEPT
                      !.pc = IF Scope(req.route) # "" THEN "admit" ELSE "handler"]
    /\ metrics' = Bumped(metrics, req'.status)
    /\ UNCHANGED <<rlVars, probe, tasks, vlog, issued, flags, events, items, nextId, memo>>

\* if (!apiKeyMatches(c)) return Unauthorized(c): the first statement of
\* every /v1 handler.
Authenticate ==
    /\ req.pc = "auth"
    /\ req' = IF ~apiKeyMatches(req.sent)
              THEN Fin(Stage(req, "Authenticate"), 401)
              ELSE [Stage(req, "Authenticate") EXCEPT
                      !.pc = IF Scope(req.route) # "" THEN "admit" ELSE "handler"]
    /\ metrics' = Bumped(metrics, req'.status)
    /\ UNCHANGED <<rlVars, probe, tasks, vlog, issued, flags, events, items, nextId, memo>>

\* tooMany(c, WINDOW) of index.ts; src/index.ts answers c.json(..., 429).
tooMany(r, retry) ==
    IF worker = "rs"
    THEN Fin([r EXCEPT !.hdr.retry = <<retry>>, !.retry_after = <<retry>>], 429)
    ELSE Fin(r, 429)

\* Mutant: the evaluations of /demo/eval are counted in a bucket of their own.
AdmissionCheck_DemoBucket ==
    /\ req.pc = "admit"
    /\ LET k == (IF req.viaDemo THEN "demo" ELSE Scope(req.route))
                    \o ":" \o callerOf(req.sent)
           r == IF worker = "rs" THEN rateLimit(k, LIMIT, WINDOW)
                ELSE rateLimitSrc(k, LIMIT, WINDOW)
           q == [Stage(req, "AdmissionCheck") EXCEPT
                   !.rlc = @ + 1, !.rlCount = r.res.count, !.rlOk = r.res.ok,
                   !.hdr.limit = <<LIMIT>>,
                   !.hdr.remaining = <<Max(0, LIMIT - r.res.count)>>,
                   !.hdr.reset = <<r.res.resetUnix>>]
       IN /\ rlBuckets' = r.buckets
          /\ req' = IF ~r.res.ok THEN tooMany(q, WINDOW)
                    ELSE [q EXCEPT !.pc = IF q.route = "POST /v1/evaluate"
                                          THEN "lookup" ELSE "handler"]
    /\ metrics' = Bumped(metrics, req'.status)
    /\ UNCHANGED <<worker, env, clock, redis, rl, hist>>
    /\ UNCHANGED <<flags, events, items, nextId, memo, probe, tasks, vlog, issued>>

\* Mutant: the flag is looked for before a denial is answered.
AdmissionCheck_AfterLookup ==
    /\ req.pc = "admit"
    /\ LET k == Scope(req.route) \o ":" \o callerOf(req.sent)
           r == IF worker = "rs" THEN rateLimit(k, LIMIT, WINDOW)
                ELSE rateLimitSrc(k, LIMIT, WINDOW)
           q == [Stage(req, "AdmissionCheck") EXCEPT
                   !.rlc = @ + 1, !.rlCount = r.res.count, !.rlOk = r.res.ok,
                   !.hdr.limit = <<LIMIT>>,
                   !.hdr.remaining = <<Max(0, LIMIT - r.res.count)>>,
                   !.hdr.reset = <<r.res.resetUnix>>]
       IN /\ rlBuckets' = r.buckets
          /\ req' = IF q.route = "POST /v1/evaluate" /\ q.key \notin DOMAIN flags
                    THEN Fin([q EXCEPT !.db = @ + 1], 404)
                    ELSE IF ~r.res.ok THEN tooMany(q, WINDOW)
                    ELSE [q EXCEPT !.pc = IF q.route = "POST /v1/evaluate"
                                          THEN "lookup" ELSE "handler"]
    /\ metrics' = Bumped(metrics, req'.status)
    /\ UNCHANGED <<worker, env, clock, redis, rl, hist>>
    /\ UNCHANGED <<flags, events, items, nextId, memo, probe, tasks, vlog, issued>>

\* The rateLimit call of a handler, the three X-RateLimit headers, and the
\* 429 when the check denies.
AdmissionCheck ==
    /\ req.pc = "admit"
    /\ LET k == Scope(req.route) \o ":" \o callerOf(req.sent)
           r == IF worker = "rs" THEN rateLimit(k, LIMIT, WINDOW)
                ELSE rateLimitSrc(k, LIMIT, WINDOW)
           q == [Stage(req, "AdmissionCheck") EXCEPT
                   !.rlc = @ + 1, !.rlCount = r.res.count, !.rlOk = r.res.ok,
                   !.hdr.limit = <<LIMIT>>,
                   !.hdr.remaining = <<Max(0, LIMIT - r.res.count)>>,
                   !.hdr.reset = <<r.res.resetUnix>>]
       IN /\ rlBuckets' = r.buckets
          /\ req' = IF ~r.res.ok THEN tooMany(q, WINDOW)
                    ELSE [q EXCEPT !.pc = IF q.route = "POST /v1/evaluate"
                                          THEN "lookup" ELSE "handler"]
    /\ metrics' = Bumped(metrics, req'.status)
    /\ UNCHANGED <<worker, env, clock, redis, rl, hist>>
    /\ UNCHANGED <<flags, events, items, nextId, memo, probe, tasks, vlog, issued>>

\* Mutant: a lookup that misses is tried again.
FlagLookup_Retries ==
    /\ req.pc = "lookup"
    /\ LET q == [Stage(req, "FlagLookup") EXCEPT !.db = @ + 1]
       IN req' = IF req.key \notin DOMAIN flags
                 THEN (IF Len(req.stages) < 4 THEN q ELSE Fin(q, 404))
                 ELSE [q EXCEPT !.pc = "decide",
                          !.row = <<[key |-> flags[req.key].key,
                                     enabled |-> flags[req.key].enabled,
                                     version |-> flags[req.key].version]>>]
    /\ UNCHANGED <<rlVars, auxVars, flags, events, items, nextId, memo>>

\* SELECT key, enabled, version FROM flags WHERE key = ? LIMIT 1
FlagLookup ==
    /\ req.pc = "lookup"
    /\ LET q == [Stage(req, "FlagLookup") EXCEPT !.db = @ + 1]
       IN req' = IF req.key \notin DOMAIN flags THEN Fin(q, 404)
                 ELSE [q EXCEPT !.pc = "decide",
                          !.row = <<[key |-> flags[req.key].key,
                                     enabled |-> flags[req.key].enabled,
                                     version |-> flags[req.key].version]>>]
    /\ UNCHANGED <<rlVars, auxVars, flags, events, items, nextId, memo>>

\* Mutant: a decision is written to the event log.
Decide_LogsEvent ==
    /\ req.pc = "decide"
    /\ LET flag == req.row[1]
           pct == pctOf
           uid == uidOf(req.user)
           enabled == enabledFor(flag.enabled, uid, pct)
       IN /\ req' = [Stage(req, "Decide") EXCEPT
                       !.pc = "respond",
                       !.out = <<[key |-> flag.key, enabled |-> enabled,
                                  version |-> flag.version, pct |-> pct]>>]
          /\ memo' = memo \cup {[fe |-> flag.enabled # 0, pct |-> pct, uid |-> uid,
                                 at |-> NowFloor, version |-> flag.version,
                                 enabled |-> enabled, user |-> req.user]}
    /\ events' = events + 1
    /\ UNCHANGED <<rlVars, auxVars, flags, items, nextId>>

\* pct, uid, hash and enabled of the evaluate handler.
Decide ==
    /\ req.pc = "decide"
    /\ LET flag == req.row[1]
           pct == pctOf
           uid == uidOf(req.user)
           enabled == enabledFor(flag.enabled, uid, pct)
       IN /\ req' = [Stage(req, "Decide") EXCEPT
                       !.pc = "respond",
                       !.out = <<[key |-> flag.key, enabled |-> enabled,
                                  version |-> flag.version, pct |-> pct]>>]
          /\ memo' = memo \cup {[fe |-> flag.enabled # 0, pct |-> pct, uid |-> uid,
                                 at |-> NowFloor, version |-> flag.version,
                                 enabled |-> enabled, user |-> req.user]}
    /\ UNCHANGED <<rlVars, auxVars, flags, events, items, nextId>>

\* return c.json(res)
Respond ==
    /\ req.pc = "respond"
    /\ req' = Fin(Stage(req, "Respond"), 200)
    /\ UNCHANGED <<rlVars, auxVars, flags, events, items, nextId, memo>>

\* Mutant: /demo/eval copies no header of the inner response.
DemoWrap_CopiesNothing ==
    /\ req.pc = "wrap"
    /\ req' = [req EXCEPT !.pc = "done", !.hdr = NoHdr]
    /\ UNCHANGED <<rlVars, auxVars, flags, events, items, nextId, memo>>

\* /demo/eval answers with the inner status and body, and copies the three
\* x-ratelimit headers of the inner response, no other header.
DemoWrap ==
    /\ req.pc = "wrap"
    /\ req' = [req EXCEPT !.pc = "done", !.hdr.retry = <<>>]
    /\ UNCHANGED <<rlVars, auxVars, flags, events, items, nextId, memo>>

(* ------------------------- the other handlers ------------------------- *)

\* SELECT ... FROM flags ORDER BY updated_at DESC LIMIT 200
ListFlags ==
    /\ req.pc = "handler" /\ req.route = "GET /v1/flags"
    /\ req' = Fin([req EXCEPT !.db = @ + 1,
                              !.out = <<{flags[k] : k \in DOMAIN flags}>>], 200)
    /\ UNCHANGED <<rlVars, auxVars, flags, events, items, nextId, memo>>

\* The UTF-16 code units of the pieces of JSON.stringify(flag), flag being
\* { ...row, enabled: !!row.enabled }: the keys in the order of the SELECT.
jsonText(part) ==
    CASE part = "id" -> <<123, 34, 105, 100, 34, 58, 34>>   \* {"id":"
      [] part = "key" -> <<34, 44, 34, 107, 101, 121, 34, 58, 34>>   \* ","key":"
      [] part = "description" ->   \* ","description":
            <<34, 44, 34, 100, 101, 115, 99, 114, 105, 112, 116, 105, 111, 110, 34, 58>>
      [] part = "null" -> <<110, 117, 108, 108>>
      [] part = "enabled" ->   \* ,"enabled":
            <<44, 34, 101, 110, 97, 98, 108, 101, 100, 34, 58>>
      [] part = "true" -> <<116, 114, 117, 101>>
      [] part = "false" -> <<102, 97, 108, 115, 101>>
      [] part = "version" ->   \* ,"version":
            <<44, 34, 118, 101, 114, 115, 105, 111, 110, 34, 58>>
      [] part = "updated_at" ->   \* ,"updated_at":"1970-01-01 00:00:
            <<44, 34, 117, 112, 100, 97, 116, 101, 100, 95, 97, 116, 34, 58, 34,
              49, 57, 55, 48, 45, 48, 49, 45, 48, 49, 32, 48, 48, 58, 48, 48, 58>>
      [] part = "end" -> <<34, 125>>   \* "}

\* The code units of the keys and descriptions the model stores.
textCodes(s) ==
    CASE s = "welcome_banner" ->
            <<119, 101, 108, 99, 111, 109, 101, 95, 98, 97, 110, 110, 101, 114>>
      [] s = "beta" -> <<98, 101, 116, 97>>
      [] s = "new" -> <<110, 101, 119>>
      [] s = "text" -> <<116, 101, 120, 116>>
      [] s = "4>475J@" -> <<52, 62, 52, 55, 53, 74, 64>>

\* String(n) of a natural number, as code units.
RECURSIVE digits(_)
digits(n) == IF n < 10 THEN <<48 + n>> ELSE digits(n \div 10) \o <<48 + (n % 10)>>

\* The seconds of datetime('now'), two digits.
seconds(n) == <<48 + ((n \div 10) % 10), 48 + (n % 10)>>

\* JSON.stringify({ ...row, enabled: !!row.enabled }); the id is the serial
\* number of the UUID, the timestamp is the clock's second.
stringify(row) ==
    jsonText("id") \o digits(row.id)
        \o jsonText("key") \o textCodes(row.key)
        \o jsonText("description")
        \o (IF row.description = <<>> THEN jsonText("null")
            ELSE <<34>> \o textCodes(row.description[1]) \o <<34>>)
        \o jsonText("enabled")
        \o (IF row.enabled # 0 THEN jsonText("true") ELSE jsonText("false"))
        \o jsonText("version") \o digits(row.version)
        \o jsonText("updated_at") \o seconds(row.updated_at)
        \o jsonText("end")

\* The loop h = (h * 31 + s.charCodeAt(i)) | 0 over a long string, sixteen
\* characters at a time; the step is the one of the bucket hash.
RECURSIVE hashLoop(_, _)
hashLoop(h, codes) ==
    IF Len(codes) <= 16 THEN reduce(h, codes)
    ELSE CHOOSE r \in {hashLoop(n, SubSeq(codes, 17, Len(codes))) :
                          n \in {reduce(h, SubSeq(codes, 1, 16))}} : TRUE

\* for (...) h = (h * 31 + s.charCodeAt(i)) | 0, then W/"(h >>> 0) in hex":
\* the tag is the unsigned 32-bit value.
etagFrom(row) == hashLoop(<<0, 0>>, stringify(row))

\* GET /v1/flags/{key} after its admission check: 404, 304 or the flag.
GetFlag ==
    /\ req.pc = "handler" /\ req.route = "GET /v1/flags/{key}"
    /\ LET q == [req EXCEPT !.db = @ + 1]
       IN IF req.key \notin DOMAIN flags
          THEN req' = Fin(q, 404) /\ issued' = issued
          ELSE LET row == flags[req.key]
               IN \E tag \in {etagFrom(row)} :
                    IF req.inm = <<tag>>
                    THEN req' = Fin(q, 304) /\ issued' = issued
                    ELSE /\ req' = Fin([q EXCEPT !.out = <<row>>, !.etag = <<tag>>], 200)
                         /\ issued' = issued \cup {[tag |-> tag, row |-> row]}
    /\ UNCHANGED <<rlVars, probe, metrics, tasks, vlog, flags, events, items, nextId, memo>>

\* The row of INSERT INTO flags (id, key, description, enabled, version,
\* updated_at) VALUES (?, ?, ?, ?, 1, datetime('now')), enabled being
\* body.enabled ? 1 : 0.
NewRow(id, key, description, enabled) ==
    [id |-> id, key |-> key, description |-> orNull(description),
     enabled |-> IF enabled = <<TRUE>> THEN 1 ELSE 0,
     version |-> 1, updated_at |-> NowFloor]

\* Mutant: a patch that changes no column leaves the version alone.
Patched_OnlyOnChange(old, description, enabled) ==
    LET new == [old EXCEPT
                  !.description = IF orNull(description) = <<>> THEN @
                                  ELSE orNull(description),
                  !.enabled = IF enabled = <<>> THEN @
                              ELSE IF enabled[1] THEN 1 ELSE 0]
    IN IF new = old THEN old
       ELSE [new EXCEPT !.version = @ + 1, !.updated_at = NowFloor]

\* Mutant: a null description clears the column.
Patched_NullClears(old, description, enabled) ==
    [old EXCEPT
       !.description = IF description = <<>> THEN @ ELSE orNull(description),
       !.enabled = IF enabled = <<>> THEN @
                   ELSE IF enabled[1] THEN 1 ELSE 0,
       !.version = @ + 1,
       !.updated_at = NowFloor]

\* The row after UPDATE flags SET description = COALESCE(?, description),
\* enabled = COALESCE(?, enabled), version = version + 1, updated_at =
\* datetime('now'), with [patch.description ?? null, enabledParam].
Patched(old, description, enabled) ==
    [old EXCEPT
       !.description = IF orNull(description) = <<>> THEN @
                       ELSE orNull(description),
       !.enabled = IF enabled = <<>> THEN @
                   ELSE IF enabled[1] THEN 1 ELSE 0,
       !.version = @ + 1,
       !.updated_at = NowFloor]

\* Mutant: the INSERT replaces the row of a key that exists.
CreateFlag_Replaces ==
    /\ req.pc = "handler" /\ req.route = "POST /v1/flags"
    /\ nextId' = nextId + 1
    /\ LET row == NewRow(nextId + 1, req.key, req.description, req.enabled)
       IN /\ flags' = (req.key :> row) @@ flags
          /\ vlog' = Append(vlog, [op |-> "create", row |-> row])
          /\ req' = Fin([req EXCEPT !.db = @ + 2, !.out = <<row>>],
                        IF req.key \in DOMAIN flags THEN 409 ELSE 201)
    /\ UNCHANGED <<rlVars, probe, metrics, issued, tasks, events, items, memo>>

\* INSERT INTO flags ... VALUES (?, ?, ?, ?, 1, datetime('now')), then the
\* SELECT of the row; a key that exists violates UNIQUE and gives 409.
CreateFlag ==
    /\ req.pc = "handler" /\ req.route = "POST /v1/flags"
    /\ nextId' = nextId + 1
    /\ IF req.key \in DOMAIN flags
       THEN /\ req' = Fin([req EXCEPT !.db = @ + 1], 409)
            /\ UNCHANGED <<flags, vlog>>
       ELSE LET row == NewRow(nextId + 1, req.key, req.description, req.enabled)
            IN /\ flags' = flags @@ (req.key :> row)
               /\ vlog' = Append(vlog, [op |-> "create", row |-> row])
               /\ req' = Fin([req EXCEPT !.db = @ + 2, !.out = <<row>>], 201)
    /\ UNCHANGED <<rlVars, probe, metrics, issued, tasks, events, items, memo>>

\* Mutant: a patch of a key that has no row inserts one, and answers 404.
UpdateFlag_Upserts ==
    /\ req.pc = "handler" /\ req.route = "PUT /v1/flags/{key}"
    /\ IF req.key \notin DOMAIN flags
       THEN LET row == NewRow(0, req.key, req.description, req.enabled)
            IN /\ req' = Fin([req EXCEPT !.db = @ + 2], 404)
               /\ flags' = flags @@ (req.key :> row)
               /\ vlog' = Append(vlog, [op |-> "create", row |-> row])
       ELSE LET row == Patched(flags[req.key], req.description, req.enabled)
            IN /\ flags' = [flags EXCEPT ![req.key] = row]
               /\ vlog' = Append(vlog, [op |-> "patch", row |-> row])
               /\ req' = Fin([req EXCEPT !.db = @ + 2, !.out = <<row>>], 200)
    /\ UNCHANGED <<rlVars, probe, metrics, issued, tasks, events, items, nextId, memo>>

\* UPDATE flags SET description = COALESCE(?, description), enabled =
\* COALESCE(?, enabled), version = version + 1, updated_at = datetime('now')
\* WHERE key = ?, then the SELECT of the row.
UpdateFlag ==
    /\ req.pc = "handler" /\ req.route = "PUT /v1/flags/{key}"
    /\ IF req.key \notin DOMAIN flags
       THEN /\ req' = Fin([req EXCEPT !.db = @ + 2], 404)
            /\ UNCHANGED <<flags, vlog>>
       ELSE LET row == Patched(flags[req.key], req.description, req.enabled)
            IN /\ flags' = [flags EXCEPT ![req.key] = row]
               /\ vlog' = Append(vlog, [op |-> "patch", row |-> row])
               /\ req' = Fin([req EXCEPT !.db = @ + 2, !.out = <<row>>], 200)
    /\ UNCHANGED <<rlVars, probe, metrics, issued, tasks, events, items, nextId, memo>>

\* (c.env.SHOW_ADMIN || '1') === '1'
showAdmin == (IF env.SHOW_ADMIN = "" THEN "1" ELSE env.SHOW_ADMIN) = "1"

\* The decoded Basic credentials of the authorization header, <<>> when the
\* header is absent: u === c.env.ADMIN_USER && p === c.env.ADMIN_PASS
basicAuth(r) ==
    /\ r.basic # <<>>
    /\ r.basic[1].u = env.ADMIN_USER
    /\ r.basic[1].p = env.ADMIN_PASS

\* The table without the row of `key`.
Without(f, key) == [k \in DOMAIN f \ {key} |-> f[k]]

\* POST /admin/flags/delete: 404 when the admin pages are off, 401 without
\* the credentials, else DELETE FROM flags WHERE key = ? and a redirect.
AdminDelete ==
    /\ req.pc = "handler" /\ req.route = "POST /admin/flags/delete"
    /\ IF ~showAdmin
       THEN req' = Fin(req, 404) /\ UNCHANGED <<flags, vlog>>
       ELSE IF ~basicAuth(req)
       THEN req' = Fin(req, 401) /\ UNCHANGED <<flags, vlog>>
       ELSE /\ req' = Fin([req EXCEPT !.db = @ + 1], 302)
            /\ flags' = Without(flags, req.key)
            /\ vlog' = IF req.key \in DOMAIN flags
                       THEN Append(vlog, [op |-> "delete", row |-> flags[req.key]])
                       ELSE vlog
    /\ UNCHANGED <<rlVars, probe, metrics, issued, tasks, events, items, nextId, memo>>

\* key.slice(0, 8) of the keys a deployment of the model is given.
keyPrefix(k) ==
    CASE k = "" -> ""
      [] k = "key-good" -> "key-good"
      [] k = "key-edge" -> "key-edge"
      [] k = "key-good-and-long" -> "key-good"
      [] k = "alt-key-1" -> "alt-key-"

\* The body of GET /debug/env under the bindings e.
debugEnvBody(e) ==
    [has_API_KEY |-> e.API_KEY # "", has_EDGE_API_KEY |-> e.EDGE_API_KEY # "",
     key_prefix |-> keyPrefix(IF e.API_KEY # "" THEN e.API_KEY ELSE e.EDGE_API_KEY),
     DEMO_MODE |-> e.DEMO_MODE, SHOW_ADMIN |-> e.SHOW_ADMIN]

\* GET /debug/env of src/index.ts: no key is asked for.
DebugEnv ==
    /\ req.pc = "handler" /\ req.route = "GET /debug/env"
    /\ req' = Fin([req EXCEPT !.out = <<debugEnvBody(env)>>], 200)
    /\ UNCHANGED <<rlVars, auxVars, flags, events, items, nextId, memo>>

\* POST /v1/events: one INSERT INTO events per event of the body, then 202.
Events ==
    /\ req.pc = "handler" /\ req.route = "POST /v1/events"
    /\ events' = events + req.nevents
    /\ nextId' = nextId + req.nevents
    /\ req' = Fin([req EXCEPT !.db = @ + req.nevents], 202)
    /\ UNCHANGED <<rlVars, auxVars, flags, items, memo>>

\* SELECT id, name FROM items ORDER BY created_at DESC LIMIT ? OFFSET ?
ListItems ==
    /\ req.pc = "handler" /\ req.route = "GET /v1/items"
    /\ req' = Fin([req EXCEPT !.db = @ + 1, !.out = <<items>>], 200)
    /\ UNCHANGED <<rlVars, auxVars, flags, events, items, nextId, memo>>

\* INSERT INTO items (id, name, created_at) VALUES (?, ?, datetime('now'))
CreateItem ==
    /\ req.pc = "handler" /\ req.route = "POST /v1/items"
    /\ nextId' = nextId + 1
    /\ items' = items \cup {[id |-> nextId + 1, name |-> "item",
                             created_at |-> NowFloor]}
    /\ req' = Fin([req EXCEPT !.db = @ + 1], 201)
    /\ UNCHANGED <<rlVars, auxVars, flags, events, memo>>

(* ------------------------------- Spec --------------------------------- *)

\* A binding set of the worker: limit, window, switch, keys, demo, rollout.
EnvOf(l, w, d, api, edge, demo, pct) ==
    [BaseEnv EXCEPT !.RL_LIMIT = l, !.RL_WINDOW = w, !.DISABLE_RATE_LIMIT = d,
                    !.API_KEY = api, !.EDGE_API_KEY = edge, !.DEMO_MODE = demo,
                    !.ROLLOUT_PCT = pct]

\* The deployments explored: each worker under bindings EnvSchema accepts.
Deployments ==
    {[worker |-> "rs", env |-> EnvOf(<<1>>, <<MinWindow>>, "", ApiKey, "", "", <<>>)],
     [worker |-> "rs", env |-> EnvOf(<<MaxLimit>>, <<MinWindow + 1>>, "0", ApiKey, EdgeKey, "1", <<50>>)],
     [worker |-> "rs", env |-> EnvOf(<<0>>, <<MinWindow>>, "", "", EdgeKey, "0", <<100>>)],
     [worker |-> "rs", env |-> EnvOf(<<>>, <<>>, "1", ApiKey, "", "1", <<0>>)],
     [worker |-> "rs_src", env |-> EnvOf(<<1>>, <<MinWindow>>, "", ApiKey, "", "1", <<>>)],
     [worker |-> "rs_src", env |-> EnvOf(<<1>>, <<MinWindow>>, "", ApiKey, EdgeKey, "", <<50>>)]}

\* The flags table when the worker starts: empty, or one flag.
StoredFlags ==
    {<<>>} \cup
    {("welcome_banner" :> [id |-> 0, key |-> "welcome_banner", description |-> <<>>,
                           enabled |-> e, version |-> 1, updated_at |-> 0]) :
        e \in {0, 1}}

Init ==
    /\ \E d \in Deployments : worker = d.worker /\ env = d.env
    /\ clock = 0
    /\ rlBuckets = <<>>
    /\ redis = <<>>
    /\ rl = NoCall
    /\ hist = <<>>
    /\ flags \in StoredFlags
    /\ events = 0
    /\ items = {}
    /\ nextId = 0
    /\ req = IdleReq
    /\ memo = {}
    /\ probe = <<>>
    /\ tasks = <<>>
    /\ vlog = StoredLog(flags)
    /\ issued = {}
    /\ metrics = NoMetrics

Next ==
    \/ Tick
    \/ BeginRequest
    \/ Demo
    \/ Authenticate
    \/ AdmissionCheck
    \/ FlagLookup
    \/ Decide
    \/ Respond
    \/ DemoWrap
    \/ ListFlags
    \/ GetFlag
    \/ CreateFlag
    \/ UpdateFlag
    \/ Events
    \/ ListItems
    \/ CreateItem

Spec == Init /\ [][Next]_vars

(* ----------------------------- SpecEval ------------------------------- *)

\* An authenticated client that evaluates one flag for every user id, and
\* updates the flag in between.
EvalInputs ==
    {[route |-> "POST /v1/evaluate", key |-> "welcome_banner", user |-> u,
      description |-> <<>>, enabled |-> <<>>, nevents |-> 0, inm |-> <<>>] :
        u \in {<<>>} \cup {User(id) : id \in UserIds}}
    \cup
    {[route |-> "PUT /v1/flags/{key}", key |-> "welcome_banner", user |-> <<>>,
      description |-> d, enabled |-> e, nevents |-> 0, inm |-> <<>>] :
        d \in {Str("text")}, e \in {<<>>, <<FALSE>>}}

BeginEval == Begin(EvalInputs, {Want}, MaxEvals)

InitEval == Init /\ flags # <<>>

NextEval ==
    \/ Tick
    \/ BeginEval
    \/ Authenticate
    \/ AdmissionCheck
    \/ FlagLookup
    \/ Decide
    \/ Respond
    \/ UpdateFlag

SpecEval == InitEval /\ [][NextEval]_vars

(* ----------------------------- SpecOrch ------------------------------- *)

\* The evaluate operation alone, direct and through /demo/eval, with every
\* x-api-key; a handler that awaits a settled promise is resumed (WF).
OrchInputs ==
    {[route |-> r, key |-> k, user |-> User("user-123"), description |-> <<>>,
      enabled |-> <<>>, nevents |-> 0, inm |-> <<>>] :
        r \in {"POST /v1/evaluate"}, k \in FlagKeys}
    \cup
    {[route |-> "GET /demo/eval", key |-> "welcome_banner", user |-> User("d"),
      description |-> <<>>, enabled |-> <<>>, nevents |-> 0, inm |-> <<>>]}

BeginOrch == Begin(OrchInputs, SentKeys, MaxReqs)

NextOrch ==
    \/ Tick
    \/ BeginOrch
    \/ Demo
    \/ Authenticate
    \/ AdmissionCheck
    \/ FlagLookup
    \/ Decide
    \/ Respond
    \/ DemoWrap

HandleOrch ==
    Demo \/ Authenticate \/ AdmissionCheck \/ FlagLookup \/ Decide \/ Respond \/ DemoWrap

SpecOrch == Init /\ [][NextOrch]_vars /\ WF_vars(HandleOrch)

(* ------------------------------ SpecEnv ------------------------------- *)
\* The evaluate operation under configurations that EnvSchema accepts and
\* that it refuses.

EnvDeployments ==
    {[worker |-> "rs",
      env |-> EnvOf(<<MaxLimit>>, <<MinWindow>>, "", ApiKey, "", "", <<100>>)],
     [worker |-> "rs",
      env |-> EnvOf(<<MaxLimit>>, <<MinWindow>>, "", ApiKey, "", "", <<150>>)],
     [worker |-> "rs_src",
      env |-> EnvOf(<<MaxLimit>>, <<MinWindow>>, "", ApiKey, "", "", <<101>>)],
     [worker |-> "rs_src",
      env |-> EnvOf(<<MaxLimit>>, <<MinWindow>>, "", ApiKey, "", "", <<50>>)]}

EnvInputs ==
    {[route |-> "POST /v1/evaluate", key |-> "welcome_banner", user |-> u,
      description |-> <<>>, enabled |-> <<>>, nevents |-> 0, inm |-> <<>>] :
        u \in {<<>>, UserNoId, User("anon"), User("user-123"), User("d")}}

BeginEnv == Begin(EnvInputs, {Want}, MaxReqs)

InitEnv ==
    /\ \E d \in EnvDeployments : worker = d.worker /\ env = d.env
    /\ clock = 0
    /\ rlBuckets = <<>>
    /\ redis = <<>>
    /\ rl = NoCall
    /\ hist = <<>>
    /\ flags \in StoredFlags
    /\ events = 0
    /\ items = {}
    /\ nextId = 0
    /\ req = IdleReq
    /\ memo = {}
    /\ probe = <<>>
    /\ tasks = <<>>
    /\ vlog = StoredLog(flags)
    /\ issued = {}
    /\ metrics = NoMetrics

NextEnv ==
    \/ Tick
    \/ BeginEnv
    \/ Authenticate
    \/ AdmissionCheck
    \/ FlagLookup
    \/ Decide
    \/ Respond

SpecEnv == InitEnv /\ [][NextEnv]_vars

(* ------------------------------ SpecFlags ----------------------------- *)
\* The life of a flag: create, patch, read and the administrative delete,
\* one request after the other.

MaxFlagOps == 4   \* requests per behaviour

FlagDeployments ==
    {[worker |-> "rs",
      env |-> EnvOf(<<>>, <<>>, "1", ApiKey, "", "", <<>>)],
     [worker |-> "rs_src",
      env |-> EnvOf(<<>>, <<>>, "1", ApiKey, "", "", <<>>)]}

Credentials == {<<>>, <<[u |-> "admin", p |-> "secret"]>>}

FlagInputs(w) ==
    LET F(route, k, d, e, b) ==
            [route |-> route, key |-> k, user |-> <<>>, description |-> d,
             enabled |-> e, nevents |-> 0, inm |-> <<>>, basic |-> b]
    IN {F("POST /v1/flags", "welcome_banner", <<>>, <<>>, <<>>),
        F("POST /v1/flags", "welcome_banner", Str("new"), <<TRUE>>, <<>>),
        F("PUT /v1/flags/{key}", "welcome_banner", <<>>, <<>>, <<>>),
        F("PUT /v1/flags/{key}", "welcome_banner", JsonNull, <<TRUE>>, <<>>),
        F("PUT /v1/flags/{key}", "welcome_banner", Str("text"), <<>>, <<>>),
        F("PUT /v1/flags/{key}", "beta", Str("text"), <<FALSE>>, <<>>)}
       \cup
       (IF w = "rs"
        THEN {F("GET /v1/flags/{key}", "welcome_banner", <<>>, <<>>, <<>>)}
                \cup {F("POST /admin/flags/delete", "welcome_banner", <<>>, <<>>, b) :
                        b \in Credentials}
        ELSE {})

BeginFlags == Begin(FlagInputs(worker), {Want}, MaxFlagOps)

InitFlags ==
    /\ \E d \in FlagDeployments : worker = d.worker /\ env = d.env
    /\ clock = 0
    /\ rlBuckets = <<>>
    /\ redis = <<>>
    /\ rl = NoCall
    /\ hist = <<>>
    /\ flags \in StoredFlags
    /\ events = 0
    /\ items = {}
    /\ nextId = 0
    /\ req = IdleReq
    /\ memo = {}
    /\ probe = <<>>
    /\ tasks = <<>>
    /\ vlog = StoredLog(flags)
    /\ issued = {}
    /\ metrics = NoMetrics

NextFlags ==
    \/ Tick
    \/ BeginFlags
    \/ Authenticate
    \/ AdmissionCheck
    \/ GetFlag
    \/ CreateFlag
    \/ UpdateFlag
    \/ AdminDelete

SpecFlags == InitFlags /\ [][NextFlags]_vars

(* ------------------------------ SpecConc ------------------------------ *)
\* Several create requests in flight at once. A handler gives way at each
\* await, so the statements of different requests interleave; D1 runs one
\* statement at a time.

MaxTasks == 2     \* requests in flight

\* Mutant: the table takes a second row of a key.
UniqueOk_Unchecked(table, row) == TRUE

\* key TEXT NOT NULL UNIQUE: the INSERT of `row` is accepted.
UniqueOk(table, row) == row.key \notin DOMAIN table

CreateBodies ==
    {[key |-> k, description |-> d, enabled |-> e] :
        k \in FlagKeys, d \in {<<>>, Str("new")}, e \in {<<>>, <<TRUE>>}}

NewTask(body) ==
    [op |-> "create", pc |-> "insert", key |-> body.key,
     description |-> body.description, enabled |-> body.enabled,
     id |-> 0, status |-> 0, out |-> <<>>]

InitConc ==
    /\ \E d \in FlagDeployments : worker = d.worker /\ env = d.env
    /\ clock = 0
    /\ rlBuckets = <<>>
    /\ redis = <<>>
    /\ rl = NoCall
    /\ hist = <<>>
    /\ flags \in StoredFlags
    /\ events = 0
    /\ items = {}
    /\ nextId = 0
    /\ req = IdleReq
    /\ memo = {}
    /\ probe = <<>>
    /\ tasks \in [1..MaxTasks -> {NewTask(b) : b \in CreateBodies}]
    /\ vlog = StoredLog(flags)
    /\ issued = {}
    /\ metrics = NoMetrics

\* POST /v1/flags up to its first statement: the key check, NewFlag.parse,
\* crypto.randomUUID() and the INSERT; the UNIQUE error is caught as 409.
ConcInsert(i) ==
    /\ tasks[i].op = "create" /\ tasks[i].pc = "insert"
    /\ nextId' = nextId + 1
    /\ LET t == tasks[i]
           row == NewRow(nextId + 1, t.key, t.description, t.enabled)
       IN IF UniqueOk(flags, row)
          THEN /\ flags' = flags @@ (t.key :> row)
               /\ vlog' = Append(vlog, [op |-> "create", row |-> row])
               /\ tasks' = [tasks EXCEPT ![i].pc = "select", ![i].id = row.id]
          ELSE /\ tasks' = [tasks EXCEPT ![i].pc = "done", ![i].status = 409]
               /\ UNCHANGED <<flags, vlog>>
    /\ UNCHANGED <<rlVars, probe, metrics, issued, events, items, req, memo>>

\* The SELECT of the row and the 201: ...(row ?? { id, key, description,
\* enabled, version: 1, updated_at })
ConcSelect(i) ==
    /\ tasks[i].op = "create" /\ tasks[i].pc = "select"
    /\ LET t == tasks[i]
           row == IF t.key \in DOMAIN flags THEN flags[t.key]
                  ELSE NewRow(t.id, t.key, t.description, t.enabled)
       IN tasks' = [tasks EXCEPT ![i].pc = "done", ![i].status = 201,
                                 ![i].out = <<row>>]
    /\ UNCHANGED <<rlVars, probe, metrics, issued, vlog, flags, events, items, nextId, req, memo>>

NextConc ==
    \/ Tick
    \/ \E i \in 1..MaxTasks : ConcInsert(i)
    \/ \E i \in 1..MaxTasks : ConcSelect(i)

SpecConc == InitConc /\ [][NextConc]_vars

(* ------------------------------ SpecPatch ----------------------------- *)
\* Patches and evaluations of flags in flight at once, statement by
\* statement: a patch is an UPDATE and then a SELECT, an evaluation is the
\* admission check and then one SELECT. The requests are in flight within
\* one second of the clock.

MaxInFlight == 3     \* patches and evaluations in flight

PatchTask(key, description, enabled) ==
    [op |-> "patch", pc |-> "update", key |-> key,
     description |-> description, enabled |-> enabled, user |-> <<>>,
     from |-> 0, to |-> 0, seen |-> <<>>, applied |-> <<>>, status |-> 0,
     out |-> <<>>]

EvalTask(key, user) ==
    [op |-> "evaluate", pc |-> "admit", key |-> key,
     description |-> <<>>, enabled |-> <<>>, user |-> user,
     from |-> 0, to |-> 0, seen |-> <<>>, applied |-> <<>>, status |-> 0,
     out |-> <<>>]

PatchTasks ==
    <<PatchTask("welcome_banner", <<>>, <<TRUE>>),
      PatchTask("welcome_banner", <<>>, <<FALSE>>),
      PatchTask("welcome_banner", Str("text"), <<>>),
      PatchTask("beta", <<>>, <<TRUE>>),
      EvalTask("welcome_banner", User("user-123"))>>

\* The requests in flight, up to the order in which they are numbered.
InFlight ==
    {[i \in 1..MaxInFlight |-> PatchTasks[f[i]]] :
        f \in {g \in [1..MaxInFlight -> DOMAIN PatchTasks] :
                  \A i \in 1..(MaxInFlight - 1) : g[i] <= g[i + 1]}}

PatchDeployments ==
    {[worker |-> w, env |-> EnvOf(<<>>, <<>>, "1", ApiKey, "", "", <<100>>)] :
        w \in {"rs", "rs_src"}}

InitPatch ==
    /\ \E d \in PatchDeployments : worker = d.worker /\ env = d.env
    /\ clock = 0
    /\ rlBuckets = <<>>
    /\ redis = <<>>
    /\ rl = NoCall
    /\ hist = <<>>
    /\ flags \in StoredFlags
    /\ events = 0
    /\ items = {}
    /\ nextId = 0
    /\ req = IdleReq
    /\ memo = {}
    /\ probe = <<>>
    /\ tasks \in InFlight
    /\ vlog = StoredLog(flags)
    /\ issued = {}
    /\ metrics = NoMetrics

\* Mutant: the version is read by one statement and written by the next.
ConcUpdate_ReadThenWrite(i) ==
    /\ tasks[i].op = "patch" /\ tasks[i].pc = "update"
    /\ LET t == tasks[i]
       IN IF t.key \notin DOMAIN flags
          THEN /\ tasks' = [tasks EXCEPT ![i].pc = "select"]
               /\ UNCHANGED <<flags, vlog>>
          ELSE IF t.seen = <<>>
          THEN /\ tasks' = [tasks EXCEPT ![i].seen = <<flags[t.key].version>>]
               /\ UNCHANGED <<flags, vlog>>
          ELSE LET row == [Patched(flags[t.key], t.description, t.enabled)
                              EXCEPT !.version = t.seen[1] + 1]
               IN /\ flags' = [flags EXCEPT ![t.key] = row]
                  /\ vlog' = Append(vlog, [op |-> "patch", row |-> row])
                  /\ tasks' = [tasks EXCEPT ![i].pc = "select",
                                            ![i].applied = <<row>>]
    /\ UNCHANGED <<rlVars, probe, metrics, issued, events, items, nextId, req, memo>>

\* PUT /v1/flags/{key} up to its first statement: UPDATE flags SET ...
\* version = version + 1 ... WHERE key = ?, one statement of the store.
\* `applied` keeps the row the statement wrote, if it wrote one (the handler
\* does not look at the result of d1Run).
ConcUpdate(i) ==
    /\ tasks[i].op = "patch" /\ tasks[i].pc = "update"
    /\ LET t == tasks[i]
       IN IF t.key \notin DOMAIN flags
          THEN /\ tasks' = [tasks EXCEPT ![i].pc = "select"]
               /\ UNCHANGED <<flags, vlog>>
          ELSE LET row == Patched(flags[t.key], t.description, t.enabled)
               IN /\ flags' = [flags EXCEPT ![t.key] = row]
                  /\ vlog' = Append(vlog, [op |-> "patch", row |-> row])
                  /\ tasks' = [tasks EXCEPT ![i].pc = "select",
                                            ![i].applied = <<row>>]
    /\ UNCHANGED <<rlVars, probe, metrics, issued, events, items, nextId, req, memo>>

\* The SELECT of the patched row: 404 without a row, else the row as 200.
ConcSelectPatched(i) ==
    /\ tasks[i].op = "patch" /\ tasks[i].pc = "select"
    /\ LET t == tasks[i]
       IN tasks' = IF t.key \notin DOMAIN flags
                   THEN [tasks EXCEPT ![i].pc = "done", ![i].status = 404]
                   ELSE [tasks EXCEPT ![i].pc = "done", ![i].status = 200,
                                      ![i].out = <<flags[t.key]>>]
    /\ UNCHANGED <<rlVars, probe, metrics, issued, vlog, flags, events, items, nextId, req, memo>>

\* POST /v1/evaluate up to its first await: the key, the body and
\* rateLimit(`eval:${caller}`). `from` and `to` are the places in the log of
\* the table at which the request started and was answered.
ConcAdmit(i) ==
    /\ tasks[i].op = "evaluate" /\ tasks[i].pc = "admit"
    /\ LET k == Scope("POST /v1/evaluate") \o ":" \o callerOf(Want)
           r == IF worker = "rs" THEN rateLimit(k, LIMIT, WINDOW)
                ELSE rateLimitSrc(k, LIMIT, WINDOW)
       IN /\ rlBuckets' = r.buckets
          /\ tasks' = IF ~r.res.ok
                      THEN [tasks EXCEPT ![i].pc = "done", ![i].status = 429]
                      ELSE [tasks EXCEPT ![i].pc = "lookup", ![i].from = Len(vlog)]
          /\ metrics' = IF ~r.res.ok THEN Bumped(metrics, 429) ELSE metrics
    /\ UNCHANGED <<worker, env, clock, redis, rl, hist>>
    /\ UNCHANGED <<probe, issued, vlog, flags, events, items, nextId, req, memo>>

\* Mutant: the enabled bit and the version are read by two statements.
ConcLookup_TwoReads(i) ==
    /\ tasks[i].op = "evaluate" /\ tasks[i].pc = "lookup"
    /\ LET t == tasks[i]
       IN tasks' =
            IF t.key \notin DOMAIN flags
            THEN [tasks EXCEPT ![i].pc = "done", ![i].status = 404]
            ELSE IF t.seen = <<>>
            THEN [tasks EXCEPT ![i].seen = <<flags[t.key].enabled>>]
            ELSE [tasks EXCEPT
                    ![i].pc = "done", ![i].status = 200, ![i].to = Len(vlog),
                    ![i].out = <<[key |-> t.key,
                                  enabled |-> enabledFor(t.seen[1], uidOf(t.user), pctOf),
                                  version |-> flags[t.key].version,
                                  pct |-> pctOf]>>]
    /\ UNCHANGED <<rlVars, probe, metrics, issued, vlog, flags, events, items, nextId, req, memo>>

\* SELECT key, enabled, version FROM flags WHERE key = ? LIMIT 1, and the
\* response computed from that one row.
ConcLookup(i) ==
    /\ tasks[i].op = "evaluate" /\ tasks[i].pc = "lookup"
    /\ LET t == tasks[i]
       IN tasks' =
            IF t.key \notin DOMAIN flags
            THEN [tasks EXCEPT ![i].pc = "done", ![i].status = 404]
            ELSE LET flag == flags[t.key]
                 IN [tasks EXCEPT
                       ![i].pc = "done", ![i].status = 200, ![i].to = Len(vlog),
                       ![i].seen = <<flag.enabled>>,
                       ![i].out = <<[key |-> flag.key,
                                     enabled |-> enabledFor(flag.enabled, uidOf(t.user), pctOf),
                                     version |-> flag.version,
                                     pct |-> pctOf]>>]
    /\ UNCHANGED <<rlVars, probe, metrics, issued, vlog, flags, events, items, nextId, req, memo>>

NextPatch ==
    \/ \E i \in 1..MaxInFlight : ConcUpdate(i)
    \/ \E i \in 1..MaxInFlight : ConcSelectPatched(i)
    \/ \E i \in 1..MaxInFlight : ConcAdmit(i)
    \/ \E i \in 1..MaxInFlight : ConcLookup(i)

SpecPatch == InitPatch /\ [][NextPatch]_vars

(* ------------------------------ SpecChecks ---------------------------- *)
\* Admission checks in flight at once. The in-process helper has no await in
\* its body and runs as one step; the helper of unnamed/part_001 gives way at
\* `await redis.incr` and at `await redis.expire`, and each of the two
\* commands takes effect at the store some time after the helper read the
\* clock. The store is available: no command fails.

CheckTask(key) ==
    [op |-> "check", pc |-> "start", key |-> key, bucket |-> "", windowId |-> 0,
     at |-> 0, nth |-> 0, count |-> 0, ok |-> TRUE, resetUnix |-> 0,
     path |-> "none"]

CheckKeys == <<"eval:" \o ApiKey, "items:" \o ApiKey>>

ChecksInFlight ==
    {[i \in 1..MaxInFlight |-> CheckTask(CheckKeys[f[i]])] :
        f \in {g \in [1..MaxInFlight -> DOMAIN CheckKeys] :
                  \A i \in 1..(MaxInFlight - 1) : g[i] <= g[i + 1]}}

CheckEnvs ==
    {[BaseEnv EXCEPT !.RL_LIMIT = <<l>>, !.RL_WINDOW = <<MinWindow>>,
                     !.UPSTASH_REDIS_REST_URL = u, !.UPSTASH_REDIS_REST_TOKEN = u] :
        l \in 1..MaxLimit, u \in {"", "set"}}

InitChecks ==
    /\ worker \in {"rs", "upstash"}
    /\ env \in CheckEnvs
    /\ (worker = "upstash") <=> (env.UPSTASH_REDIS_REST_URL = "set")
    /\ clock = 0
    /\ rlBuckets = <<>>
    /\ redis = <<>>
    /\ rl = NoCall
    /\ hist = <<>>
    /\ flags = <<>>
    /\ events = 0
    /\ items = {}
    /\ nextId = 0
    /\ req = <<>>
    /\ memo = {}
    /\ probe = <<>>
    /\ tasks \in ChecksInFlight
    /\ vlog = StoredLog(flags)
    /\ issued = {}
    /\ metrics = NoMetrics

\* One more check of bucket b has taken effect.
Taken(b) ==
    [k \in DOMAIN hist \cup {b} |->
        IF k = b THEN [HistOf(b) EXCEPT !.n = @ + 1] ELSE hist[k]]

\* rateLimit of index.ts, from its call to its return.
CheckInProcess(i) ==
    /\ worker = "rs"
    /\ tasks[i].op = "check" /\ tasks[i].pc = "start"
    /\ LET t == tasks[i]
           windowId == NowFloor \div WINDOW
           b == bucketKey(t.key, windowId)
           r == rateLimit(t.key, LIMIT, WINDOW)
       IN /\ rlBuckets' = r.buckets
          /\ hist' = Taken(b)
          /\ tasks' = [tasks EXCEPT
                         ![i].pc = "done", ![i].bucket = b,
                         ![i].windowId = windowId, ![i].at = clock,
                         ![i].nth = hist'[b].n,
                         ![i].count = r.res.count, ![i].ok = r.res.ok,
                         ![i].resetUnix = r.res.resetUnix, ![i].path = r.path]
    /\ UNCHANGED <<worker, env, clock, redis, rl>>
    /\ UNCHANGED <<orchVars, probe, metrics, vlog, issued>>

\* rateLimit of unnamed/part_001 up to `await redis.incr(windowKey)`: the
\* two early returns, the clock and the key of the window.
CheckStart(i) ==
    /\ worker = "upstash"
    /\ tasks[i].op = "check" /\ tasks[i].pc = "start"
    /\ LET t == tasks[i]
           windowId == NowFloor \div WINDOW
       IN tasks' =
            IF \/ env.DISABLE_RATE_LIMIT = "1"
               \/ env.UPSTASH_REDIS_REST_URL = "" \/ env.UPSTASH_REDIS_REST_TOKEN = ""
            THEN [tasks EXCEPT ![i].pc = "done", ![i].ok = FailOpen(WINDOW).ok,
                               ![i].count = FailOpen(WINDOW).count,
                               ![i].resetUnix = FailOpen(WINDOW).resetUnix,
                               ![i].path = "unconfigured"]
            ELSE [tasks EXCEPT ![i].pc = "incr", ![i].windowId = windowId,
                               ![i].bucket = bucketKey(t.key, windowId)]
    /\ UNCHANGED <<rlVars, orchVars, probe, metrics, vlog, issued>>

\* INCR takes effect at the store; count, ok and resetUnix of the answer.
CheckIncr(i) ==
    /\ worker = "upstash"
    /\ tasks[i].op = "check" /\ tasks[i].pc = "incr"
    /\ LET t == tasks[i]
       IN /\ redis' = RedisIncr(redis, t.bucket)
          /\ hist' = Taken(t.bucket)
          /\ tasks' = [tasks EXCEPT
                         ![i].pc = IF redis'[t.bucket].count = 1 THEN "expire"
                                   ELSE "done",
                         ![i].at = clock, ![i].nth = hist'[t.bucket].n,
                         ![i].count = redis'[t.bucket].count,
                         ![i].ok = redis'[t.bucket].count <= LIMIT,
                         ![i].resetUnix = t.windowId * WINDOW + WINDOW,
                         ![i].path = "counted"]
    /\ UNCHANGED <<worker, env, clock, rlBuckets, rl>>
    /\ UNCHANGED <<orchVars, probe, metrics, vlog, issued>>

\* if (count === 1) await redis.expire(windowKey, windowSec)
CheckExpire(i) ==
    /\ worker = "upstash"
    /\ tasks[i].op = "check" /\ tasks[i].pc = "expire"
    /\ redis' = RedisExpire(redis, tasks[i].bucket, WINDOW)
    /\ tasks' = [tasks EXCEPT ![i].pc = "done"]
    /\ UNCHANGED <<worker, env, clock, rlBuckets, rl, hist>>
    /\ UNCHANGED <<orchVars, probe, metrics, vlog, issued>>

NextChecks ==
    \/ Tick
    \/ \E i \in 1..MaxInFlight : CheckInProcess(i)
    \/ \E i \in 1..MaxInFlight : CheckStart(i)
    \/ \E i \in 1..MaxInFlight : CheckIncr(i)
    \/ \E i \in 1..MaxInFlight : CheckExpire(i)

SpecChecks == InitChecks /\ [][NextChecks]_vars

(* ------------------------------ SpecFrame ----------------------------- *)
\* Checks of the in-process helper for the three scopes of index.ts and for
\* caller strings that hold the ':' of the bucket key. The checks made are
\* counted per (scope and caller, window) in `hist`, whatever the key of
\* the bucket they were stored under.

FrameScopes == {"eval", "flag", "items"}

FrameCallers == {"key-good", "key-good:0", "key-good:0:1"}

FrameKeys == {sc \o ":" \o ca : sc \in FrameScopes, ca \in FrameCallers}

InitFrame ==
    /\ worker = "rs"
    /\ env = [BaseEnv EXCEPT !.RL_LIMIT = <<MaxLimit>>, !.RL_WINDOW = <<MinWindow>>]
    /\ clock = 0
    /\ rlBuckets = <<>>
    /\ redis = <<>>
    /\ rl = NoCall
    /\ hist = <<>>
    /\ flags = <<>>
    /\ events = 0
    /\ items = {}
    /\ nextId = 0
    /\ req = <<>>
    /\ memo = {}
    /\ probe = <<>>
    /\ tasks = <<>>
    /\ vlog = StoredLog(flags)
    /\ issued = {}
    /\ metrics = NoMetrics

\* The checks made so far for the key and window t.
MadeFor(t) == IF t \in DOMAIN hist THEN hist[t] ELSE 0

\* One call rateLimit(c, `${scope}:${caller}`, LIMIT, WINDOW).
CheckFrame(key) ==
    /\ rl.seq < MaxCalls
    /\ LET r == rateLimit(key, LIMIT, WINDOW)
           w == NowFloor \div WINDOW
           t == <<key, w>>
       IN /\ rlBuckets' = r.buckets
          /\ hist' = [u \in DOMAIN hist \cup {t} |->
                         IF u = t THEN MadeFor(t) + 1 ELSE hist[u]]
          /\ rl' = [seq |-> rl.seq + 1, key |-> key, bucket |-> bucketKey(key, w),
                    limit |-> LIMIT, windowSec |-> WINDOW, ok |-> r.res.ok,
                    count |-> r.res.count, resetUnix |-> r.res.resetUnix,
                    threw |-> FALSE, path |-> r.path, nth |-> MadeFor(t) + 1,
                    windowId |-> w]
    /\ UNCHANGED <<worker, env, clock, redis>>
    /\ UNCHANGED <<orchVars, auxVars>>

NextFrame ==
    \/ Tick
    \/ \E key \in FrameKeys : CheckFrame(key)

SpecFrame == InitFrame /\ [][NextFrame]_vars

(* ------------------------------- SpecMix ------------------------------ *)
\* Patches of a key in flight together with a create and an administrative
\* delete of that key, statement by statement, in the worker of index.ts.

DeleteTask(key) ==
    [op |-> "delete", pc |-> "delete", key |-> key, status |-> 0]

MixTasks ==
    <<PatchTask("welcome_banner", <<>>, <<TRUE>>),
      PatchTask("welcome_banner", Str("text"), <<>>),
      NewTask([key |-> "welcome_banner", description |-> Str("new"),
               enabled |-> <<>>]),
      DeleteTask("welcome_banner")>>

MixInFlight ==
    {[i \in 1..MaxInFlight |-> MixTasks[f[i]]] :
        f \in {g \in [1..MaxInFlight -> DOMAIN MixTasks] :
                  \A i \in 1..(MaxInFlight - 1) : g[i] <= g[i + 1]}}

InitMix ==
    /\ worker = "rs"
    /\ env = EnvOf(<<>>, <<>>, "1", ApiKey, "", "", <<>>)
    /\ clock = 0
    /\ rlBuckets = <<>>
    /\ redis = <<>>
    /\ rl = NoCall
    /\ hist = <<>>
    /\ flags \in StoredFlags
    /\ events = 0
    /\ items = {}
    /\ nextId = 0
    /\ req = IdleReq
    /\ memo = {}
    /\ probe = <<>>
    /\ tasks \in MixInFlight
    /\ vlog = StoredLog(flags)
    /\ issued = {}
    /\ metrics = NoMetrics

\* POST /admin/flags/delete with the administrator's credentials, from
\* readForm on: DELETE FROM flags WHERE key = ? and the redirect.
ConcDelete(i) ==
    /\ tasks[i].op = "delete" /\ tasks[i].pc = "delete"
    /\ showAdmin
    /\ LET t == tasks[i]
       IN /\ flags' = Without(flags, t.key)
          /\ vlog' = IF t.key \in DOMAIN flags
                     THEN Append(vlog, [op |-> "delete", row |-> flags[t.key]])
                     ELSE vlog
    /\ tasks' = [tasks EXCEPT ![i].pc = "done", ![i].status = 302]
    /\ UNCHANGED <<rlVars, probe, metrics, issued, events, items, nextId, req, memo>>

NextMix ==
    \/ Tick
    \/ \E i \in 1..MaxInFlight : ConcUpdate(i)
    \/ \E i \in 1..MaxInFlight : ConcSelectPatched(i)
    \/ \E i \in 1..MaxInFlight : ConcInsert(i)
    \/ \E i \in 1..MaxInFlight : ConcSelect(i)
    \/ \E i \in 1..MaxInFlight : ConcDelete(i)

SpecMix == InitMix /\ [][NextMix]_vars

(* ------------------------------ SpecEtag ------------------------------ *)
\* Conditional reads of a flag between patches: a client presents no
\* if-none-match, or a tag some earlier response carried.

EtagInputs ==
    {[route |-> "GET /v1/flags/{key}", key |-> "welcome_banner", user |-> <<>>,
      description |-> <<>>, enabled |-> <<>>, nevents |-> 0, inm |-> m] :
        m \in {<<>>} \cup {<<i.tag>> : i \in issued}}
    \cup
    {[route |-> "PUT /v1/flags/{key}", key |-> "welcome_banner", user |-> <<>>,
      description |-> d, enabled |-> <<>>, nevents |-> 0, inm |-> <<>>] :
        d \in {<<>>, Str("text"), Str("4>475J@")}}

BeginEtag == Begin(EtagInputs, {Want}, MaxFlagOps)

InitEtag ==
    /\ worker = "rs"
    /\ env = EnvOf(<<>>, <<>>, "1", ApiKey, "", "", <<>>)
    /\ clock = 0
    /\ rlBuckets = <<>>
    /\ redis = <<>>
    /\ rl = NoCall
    /\ hist = <<>>
    /\ flags \in StoredFlags
    /\ events = 0
    /\ items = {}
    /\ nextId = 0
    /\ req = IdleReq
    /\ memo = {}
    /\ probe = <<>>
    /\ tasks = <<>>
    /\ vlog = StoredLog(flags)
    /\ issued = {}
    /\ metrics = NoMetrics

NextEtag ==
    \/ Tick
    \/ BeginEtag
    \/ Authenticate
    \/ AdmissionCheck
    \/ GetFlag
    \/ UpdateFlag

SpecEtag == InitEtag /\ [][NextEtag]_vars

(* ------------------------------ SpecDebug ----------------------------- *)
\* The routes of src/index.ts that ask for no key, under deployments that
\* differ in the value of the key only.

KeyValues == {ApiKey, "key-good-and-long", "alt-key-1"}

DebugDeployments ==
    {[worker |-> "rs_src",
      env |-> EnvOf(<<MaxLimit>>, <<MinWindow>>, "", k, "", d, <<50>>)] :
        k \in KeyValues, d \in {"", "1"}}

DebugInputs ==
    {[route |-> "GET /demo/eval", key |-> k, user |-> User(u),
      description |-> <<>>, enabled |-> <<>>, nevents |-> 0, inm |-> <<>>] :
        k \in FlagKeys, u \in {"user-123", "d"}}
    \cup
    {[route |-> "GET /debug/env", key |-> "", user |-> <<>>,
      description |-> <<>>, enabled |-> <<>>, nevents |-> 0, inm |-> <<>>]}

BeginDebug == Begin(DebugInputs, {""}, MaxReqs)

InitDebug ==
    /\ \E d \in DebugDeployments : worker = d.worker /\ env = d.env
    /\ clock = 0
    /\ rlBuckets = <<>>
    /\ redis = <<>>
    /\ rl = NoCall
    /\ hist = <<>>
    /\ flags \in StoredFlags
    /\ events = 0
    /\ items = {}
    /\ nextId = 0
    /\ req = IdleReq
    /\ memo = {}
    /\ probe = <<>>
    /\ tasks = <<>>
    /\ vlog = StoredLog(flags)
    /\ issued = {}
    /\ metrics = NoMetrics

NextDebug ==
    \/ Tick
    \/ BeginDebug
    \/ Demo
    \/ Authenticate
    \/ AdmissionCheck
    \/ FlagLookup
    \/ Decide
    \/ Respond
    \/ DemoWrap
    \/ DebugEnv

SpecDebug == InitDebug /\ [][NextDebug]_vars

(* ---------------------------- SpecBucket ------------------------------ *)
\* The bucket and the decision as a pure function: an identifier is a
\* sequence of char codes, grown one character at a time from a seed, and the
\* evaluator's arithmetic is applied to each.

MaxGrow == 3      \* characters appended to a seed

\* "", "user-12" and "polygenelubricant": the last one is one "s" short of
\* the identifier whose hash is -2^31.
Seeds ==
    {<<>>,
     <<117, 115, 101, 114, 45, 49, 50>>,
     <<112, 111, 108, 121, 103, 101, 110, 101, 108,
       117, 98, 114, 105, 99, 97, 110, 116>>}

\* "3", "s", "z"
Alphabet == {51, 115, 122}

Pcts == {0, 1, 48, 49, 100}

NewProbe(codes, fe, pct, grown) ==
    [codes |-> codes, fe |-> fe, pct |-> pct, grown |-> grown,
     hash |-> <<>>, bucket |-> <<>>, enabled |-> <<>>]

InitBucket ==
    /\ \E d \in Deployments : worker = d.worker /\ env = d.env
    /\ clock = 0
    /\ rlBuckets = <<>>
    /\ redis = <<>>
    /\ rl = NoCall
    /\ hist = <<>>
    /\ flags = <<>>
    /\ events = 0
    /\ items = {}
    /\ nextId = 0
    /\ req = IdleReq
    /\ memo = {}
    /\ tasks = <<>>
    /\ vlog = <<>>
    /\ issued = {}
    /\ metrics = NoMetrics
    /\ \E codes \in Seeds, fe \in {0, 1}, pct \in Pcts :
            probe = NewProbe(codes, fe, pct, 0)

\* const hash = Math.abs([...uid].reduce(...)) % 100
\* const enabled = !!flag.enabled && hash < pct
ApplyBucket ==
    /\ probe.bucket = <<>>
    /\ LET b == bucketOf(probe.codes)
       IN probe' = [probe EXCEPT !.hash = reduce(<<0, 0>>, probe.codes),
                                 !.bucket = <<b>>,
                                 !.enabled = <<enabledAt(probe.fe, b, probe.pct)>>]
    /\ UNCHANGED <<rlVars, orchVars, tasks, vlog, issued, metrics>>

\* The next identifier: the last one with one more character.
GrowIdentifier ==
    /\ probe.bucket # <<>>
    /\ probe.grown < MaxGrow
    /\ \E ch \in Alphabet :
            probe' = NewProbe(Append(probe.codes, ch), probe.fe, probe.pct,
                              probe.grown + 1)
    /\ UNCHANGED <<rlVars, orchVars, tasks, vlog, issued, metrics>>

NextBucket == ApplyBucket \/ GrowIdentifier

SpecBucket == InitBucket /\ [][NextBucket]_vars

(* ============================ authentication ========================== *)

ProdRoutes ==
    {"GET /v1/flags", "GET /v1/flags/{key}", "POST /v1/flags",
     "PUT /v1/flags/{key}", "POST /v1/evaluate", "POST /v1/events"}

BadKey(r) == r.sent = "" \/ r.sent # Want

EvalStages == <<"Authenticate", "AdmissionCheck", "FlagLookup", "Decide", "Respond">>

IsPrefix(s, t) == Len(s) <= Len(t) /\ \A i \in 1..Len(s) : s[i] = t[i]

IsEvaluate(r) == r.route = "POST /v1/evaluate"

Answered(r) == r.pc \in {"wrap", "done"}

\* The terminal state of an answered evaluate request.
Terminal(r) ==
    CASE r.status = 401 -> "Unauthorized"
      [] r.status = 429 -> "RateLimited"
      [] r.status = 404 -> "NotFound"
      [] r.status = 200 -> "Evaluated"
      [] OTHER -> "none"

\* The stages run in order, each at most once, a later one only after every
\* earlier one succeeded; the terminal state is the one of the last stage run.
StagesInOrder ==
    IsEvaluate(req) =>
       /\ IsPrefix(req.stages, EvalStages)
       /\ Len(req.stages) >= 2 => apiKeyMatches(req.sent)
       /\ Len(req.stages) >= 3 => req.rlOk
       /\ Len(req.stages) >= 4 => req.row # <<>>
       /\ Answered(req) =>
             \/ Terminal(req) = "Unauthorized" /\ Len(req.stages) = 1
                   /\ ~apiKeyMatches(req.sent)
             \/ Terminal(req) = "RateLimited" /\ Len(req.stages) = 2 /\ ~req.rlOk
             \/ Terminal(req) = "NotFound" /\ Len(req.stages) = 3 /\ req.row = <<>>
             \/ Terminal(req) = "Evaluated" /\ Len(req.stages) = 5 /\ req.out # <<>>
       /\ ~Answered(req) => req.status = 0

\* C6: every evaluate request (well-formed body, store available) ends in
\* exactly one of Unauthorized, RateLimited, NotFound, Evaluated; the stages
\* run in the order Authenticate, AdmissionCheck, FlagLookup, Decide, Respond,
\* each at most once, a later one only if every earlier one succeeded.
C6_EvaluateStateMachine ==
    /\ []StagesInOrder
    /\ \A n \in 1..MaxReqs :
          (IsEvaluate(req) /\ req.n = n /\ ~Answered(req))
             ~> (IsEvaluate(req) /\ req.n = n /\ Answered(req))

\* C6 witness: an evaluate request ended in NotFound after three stages.
C6_Witness ==
    /\ IsEvaluate(req) /\ req.pc = "done"
    /\ Terminal(req) = "NotFound"
    /\ req.stages = <<"Authenticate", "AdmissionCheck", "FlagLookup">>

(* ========================= rate-limit metadata ======================== *)

\* C7: every response of a request that went through the admission check
\* carries limit, remaining and reset, with remaining = max(0, limit - count)
\* for the count of its own check; remaining is never negative and is 0 on
\* a denial.
C7_RateLimitHeaders ==
    (req.pc = "done" /\ req.rlc >= 1)
    => /\ req.rlc = 1
       /\ req.hdr.limit = <<LIMIT>>
       /\ req.hdr.remaining =
             <<IF LIMIT > req.rlCount THEN LIMIT - req.rlCount ELSE 0>>
       /\ req.hdr.remaining[1] >= 0
       /\ req.hdr.reset # <<>> /\ req.hdr.reset[1] >= WINDOW
       /\ req.status = 429 => (~req.rlOk /\ req.hdr.remaining = <<0>>)

\* C7 witness: a denied request answered through /demo/eval.
C7_Witness ==
    /\ req.pc = "done" /\ req.viaDemo /\ req.status = 429
    /\ req.rlCount > LIMIT /\ req.hdr.remaining = <<0>>

\* C8 as stated: every 429 of the evaluate operation carries a retry-after
\* equal to the window, as a header or in its body.
\* (Fails on edge-api-worker-rs/src/index.ts, whose 429 carries neither.)
C8_AsClaimed ==
    (IsEvaluate(req) /\ req.pc = "done" /\ req.status = 429)
    => (req.hdr.retry = <<WINDOW>> \/ req.retry_after = <<WINDOW>>)

\* The same for the handler of edge-api-worker-rs/index.ts, where it holds.
C8_Rs ==
    (worker = "rs" /\ IsEvaluate(req) /\ req.pc = "done" /\ req.status = 429)
    => (req.hdr.retry = <<WINDOW>> \/ req.retry_after = <<WINDOW>>)

(* ========================= the rollout decision ======================= *)

\* C9: two evaluations with the same flag.enabled, rollout percentage and
\* user id decide the same, whatever the time, the rate-limit state, the
\* flag's version and the evaluations in between.
C9_Deterministic ==
    \A a, b \in memo :
        (a.fe = b.fe /\ a.pct = b.pct /\ a.uid = b.uid) => a.enabled = b.enabled

\* C9 witness: the same inputs decided at two times and two versions of the
\* flag, for a user whose bucket is the last one.
C9_Witness ==
    \E a, b \in memo :
        /\ a.fe /\ b.fe /\ a.pct = b.pct /\ a.uid = "c" /\ b.uid = "c"
        /\ a.at # b.at /\ a.version # b.version

\* C10: with rolloutPct = 100 the decision equals flag.enabled and with
\* rolloutPct = 0 it is false, for every user id.
C10_Boundaries ==
    \A m \in memo :
        /\ m.pct = 100 => m.enabled = m.fe
        /\ m.pct = 0 => ~m.enabled

\* C10 witness: at 100 % the user of the last bucket (99) is enabled.
C10_Witness ==
    \E m \in memo : m.pct = 100 /\ m.fe /\ m.uid = "c" /\ m.enabled

\* At 0 % the user of the first bucket (0) is decided, and not enabled.
C10_WitnessZero ==
    \E m \in memo : m.pct = 0 /\ m.fe /\ m.uid = "d" /\ ~m.enabled

(* ============================== the bucketer ========================== *)

IntMin == <<Half \div 2, 0>>

Negative32(h) == h[1] >= Half \div 2

\* The hash as an unsigned number, modulo 100: 2^16 is 36 modulo 100.
Unsigned100(h) == (h[1] * 36 + h[2]) % 100

\* |signed hash| modulo 100, from the unsigned reading: a negative hash has
\* the magnitude 2^32 - unsigned, and 2^32 is 96 modulo 100.
Magnitude100(h) ==
    IF Negative32(h) THEN (96 + 100 - Unsigned100(h)) % 100 ELSE Unsigned100(h)

\* C11: for every identifier the bucket is an integer in 0..99 and is the
\* absolute value of the signed 32-bit hash modulo 100, also when that hash
\* is negative or is -2^31; enabled is flag.enabled AND bucket < rolloutPct.
C11_BucketInRange ==
    probe # <<>> /\ probe.bucket # <<>> =>
        /\ probe.bucket[1] \in 0..99
        /\ probe.bucket[1] = Magnitude100(probe.hash)
        /\ probe.enabled[1] = (probe.fe = 1 /\ probe.bucket[1] < probe.pct)

\* The identifier whose hash is -2^31 has bucket 48 and is enabled at 49.
C11_Witness ==
    /\ probe # <<>> /\ probe.bucket # <<>>
    /\ probe.hash = IntMin
    /\ probe.bucket = <<48>>
    /\ probe.fe = 1 /\ probe.pct = 49 /\ probe.enabled = <<TRUE>>

\* A negative hash other than -2^31 has been bucketed.
C11_WitnessNegative ==
    /\ probe # <<>> /\ probe.bucket # <<>>
    /\ Negative32(probe.hash) /\ probe.hash # IntMin

(* ========================== the default percentage ==================== *)

\* C12: when ROLLOUT_PCT is not configured every decision is taken with the
\* percentage 100 (the reason reads "rollout_100%") and its enabled is the
\* flag's enabled bit.
C12_AsClaimed ==
    env.ROLLOUT_PCT = <<>> =>
        \A m \in memo : m.pct = 100 /\ m.enabled = m.fe

\* What src/index.ts does, and index.ts does not: the default there is 10.
C12_RsSrc ==
    (worker = "rs_src" /\ env.ROLLOUT_PCT = <<>>) =>
        \A m \in memo : m.pct = DefaultRolloutSrc /\ m.enabled = m.fe

C12_Rs ==
    (worker = "rs" /\ env.ROLLOUT_PCT = <<>>) =>
        \A m \in memo : m.pct = DefaultRollout /\ m.enabled = (m.fe /\ hashOf(m.uid) < DefaultRollout)

(* ====================== a percentage out of its range ================= *)

OutOfRange == env.ROLLOUT_PCT # <<>> /\ env.ROLLOUT_PCT[1] > 100

\* C13: with a configured percentage above 100 an evaluate request is not
\* rejected: it is answered as with 100 (a decision for a stored flag, 404
\* for an unknown one, 429 over the limit), and a decision carries the
\* percentage 100.
C13_AsClaimed ==
    (OutOfRange /\ IsEvaluate(req) /\ req.pc = "done") =>
        /\ req.status \in {200, 404, 429}
        /\ req.status = 200 => (req.out # <<>> /\ req.out[1].pct = 100)

\* What the code does: the request is answered 500 before any handler runs,
\* no decision is ever taken, and the clamp never sees a value above 100.
C13_Rejected ==
    /\ (OutOfRange /\ req.pc = "done") =>
            (req.status = 500 /\ req.stages = <<>> /\ req.out = <<>>)
    /\ OutOfRange => memo = {}
    /\ \A m \in memo : m.pct = env.ROLLOUT_PCT[1]

(* ========================== anonymous callers ========================= *)

Anonymous(m) == m.user = <<>> \/ m.user = UserNoId

\* C14: an evaluate request with no user, or with a user that has no id, is
\* decided for the identifier "anon"; for the same flag bit and percentage
\* all of them get one decision, the one of the explicit user id "anon".
C14_AnonymousShareBucket ==
    /\ \A m \in memo :
            Anonymous(m) =>
                (m.uid = "anon" /\ m.enabled = (m.fe /\ hashOf("anon") < m.pct))
    /\ \A m1, m2 \in memo :
            (/\ Anonymous(m1)
             /\ Anonymous(m2) \/ m2.user = User("anon")
             /\ m1.fe = m2.fe /\ m1.pct = m2.pct) => m1.enabled = m2.enabled

\* A user without id and the explicit user "anon" were both given the flag.
C14_Witness ==
    \E m1, m2 \in memo :
        /\ m1.user = UserNoId /\ m2.user = User("anon")
        /\ m1.fe /\ m1.pct = m2.pct
        /\ m1.enabled /\ m2.enabled

\* A request without user and the explicit user "anon" were both refused it
\* by the percentage.
C14_WitnessRefused ==
    \E m1, m2 \in memo :
        /\ m1.user = <<>> /\ m2.user = User("anon")
        /\ m1.fe /\ m2.fe /\ m1.pct = m2.pct
        /\ ~m1.enabled /\ ~m2.enabled

(* ============================== versions ============================== *)

\* The positions of vlog at which a row of `key` was stored.
StoredAt(key) ==
    {i \in DOMAIN vlog : vlog[i].op # "delete" /\ vlog[i].row.key = key}

\* What a client sets and reads of a flag.
StateOf(row) == <<row.description, row.enabled>>

\* C15: over every sequence of create, patch and administrative delete
\* followed by a new create, the stored version of a key is a positive
\* integer, is 1 right after a creation, never decreases over time, and is
\* never the version of two different states of the key.
C15_AsClaimed ==
    \A key \in FlagKeys :
        /\ \A i \in StoredAt(key) :
                /\ vlog[i].row.version >= 1
                /\ vlog[i].op = "create" => vlog[i].row.version = 1
        /\ \A i, j \in StoredAt(key) :
                /\ i < j => vlog[i].row.version <= vlog[j].row.version
                /\ vlog[i].row.version = vlog[j].row.version =>
                        StateOf(vlog[i].row) = StateOf(vlog[j].row)

\* The deletions of `key` between the positions i and j of vlog.
DeletedBetween(key, i, j) ==
    \E d \in DOMAIN vlog :
        i < d /\ d < j /\ vlog[d].op = "delete" /\ vlog[d].row.key = key

\* What holds of the code: within one life of a key, from its creation to
\* its deletion, the version starts at 1 and every patch adds exactly 1.
C15_WithinOneLife ==
    \A key \in FlagKeys :
        /\ \A i \in StoredAt(key) :
                /\ vlog[i].row.version >= 1
                /\ vlog[i].op = "create" => vlog[i].row.version = 1
        /\ \A i, j \in StoredAt(key) :
                (i < j /\ ~DeletedBetween(key, i, j)) =>
                    vlog[j].row.version = vlog[i].row.version
                        + Cardinality({k \in StoredAt(key) : i < k /\ k <= j})

(* ======================= create, patches, get ========================= *)

\* The rows of `key` stored since it was last created: the run create,
\* patch, ..., patch that no deletion has interrupted.
LifeOf(key) ==
    {i \in StoredAt(key) :
        ~\E d \in DOMAIN vlog :
            d > i /\ vlog[d].op = "delete" /\ vlog[d].row.key = key}

Last(S) == CHOOSE i \in S : \A j \in S : j <= i

Returned(route, key, status) ==
    req.pc = "done" /\ req.route = route /\ req.key = key /\ req.status = status

\* C16: in a sequential run create(k), n patches of k, get(k), the i-th
\* patch stores and returns version 1 + i, whatever its body (empty, or
\* setting no new value), get returns version 1 + n, and the updated_at
\* values along the run are non-decreasing.
C16_VersionPerPatch ==
    \A key \in FlagKeys :
        LET life == LifeOf(key)
            n == Cardinality(life) - 1
        IN life # {} =>
            /\ \A i \in life :
                    vlog[i].row.version = Cardinality({k \in life : k <= i})
            /\ \A i, j \in life :
                    i < j => vlog[i].row.updated_at <= vlog[j].row.updated_at
            /\ Returned("POST /v1/flags", key, 201) =>
                    (n = 0 /\ req.out[1].version = 1)
            /\ Returned("PUT /v1/flags/{key}", key, 200) =>
                    (n >= 1 /\ req.out[1] = vlog[Last(life)].row
                            /\ req.out[1].version = 1 + n)
            /\ Returned("GET /v1/flags/{key}", key, 200) =>
                    /\ req.out[1].version = 1 + n
                    /\ req.out[1].updated_at = vlog[Last(life)].row.updated_at

\* create, a patch that changes no value, a patch a second later, and the
\* get that returns version 3.
C16_Witness ==
    /\ Len(vlog) = 3
    /\ vlog[1].op = "create" /\ vlog[2].op = "patch" /\ vlog[3].op = "patch"
    /\ StateOf(vlog[2].row) = StateOf(vlog[1].row)
    /\ vlog[3].row.updated_at > vlog[1].row.updated_at
    /\ Returned("GET /v1/flags/{key}", "welcome_banner", 200)
    /\ req.out[1].version = 3

(* ========================== create on a key in use ==================== *)

\* The step in which the handler of `route` runs to its response.
InHandler(route) == req.pc = "handler" /\ req.route = route /\ req' # req

\* C17: a create whose key already has a flag is answered 409 and leaves
\* the table as it was: the record keeps its id, description, enabled,
\* version and updated_at, and no other record of that key is stored.
C17_ConflictChangesNothing ==
    /\ [](Returned("POST /v1/flags", req.key, 409) => req.key \in DOMAIN flags)
    /\ [][(InHandler("POST /v1/flags") /\ req.key \in DOMAIN flags) =>
            /\ req'.status = 409 /\ req'.out = <<>>
            /\ flags' = flags
            /\ vlog' = vlog]_vars

\* A create was refused for a flag that had been patched to version 2.
C17_Witness ==
    /\ Returned("POST /v1/flags", "welcome_banner", 409)
    /\ req.description = Str("new")
    /\ flags["welcome_banner"].version = 2
    /\ flags["welcome_banner"].description = <<"text">>

(* ============================ what a patch sets ======================= *)

\* C18: a patch overwrites the fields its body provides and leaves the
\* others: without enabled the stored enabled stays, without description
\* (absent, or null) the stored description stays and is never cleared, and
\* the key and the id of the flag never change.
C18_PatchSemantics ==
    [][(InHandler("PUT /v1/flags/{key}") /\ req.key \in DOMAIN flags) =>
        LET old == flags[req.key]
            new == flags'[req.key]
        IN /\ req'.status = 200 /\ req'.out = <<new>>
           /\ DOMAIN flags' = DOMAIN flags
           /\ new.key = old.key /\ new.id = old.id
           /\ new.enabled =
                IF req.enabled = <<>> THEN old.enabled
                ELSE IF req.enabled[1] THEN 1 ELSE 0
           /\ new.description =
                IF req.description \in {<<>>, JsonNull} THEN old.description
                ELSE req.description[1].v]_vars

\* A patch {description: null, enabled: true} was answered with the stored
\* description kept and enabled set.
C18_Witness ==
    /\ Returned("PUT /v1/flags/{key}", "welcome_banner", 200)
    /\ req.description = JsonNull /\ req.enabled = <<TRUE>>
    /\ req.out[1].description = <<"text">>
    /\ req.out[1].enabled = 1
    /\ \E i \in DOMAIN vlog : vlog[i].row.enabled = 0

(* ========================= patch of a missing key ===================== *)

\* C19: a patch of a key that has no flag is answered 404, stores no record
\* and changes no field or version of any other flag.
C19_PatchMissing ==
    /\ [](Returned("PUT /v1/flags/{key}", req.key, 404) => req.key \notin DOMAIN flags)
    /\ [][(InHandler("PUT /v1/flags/{key}") /\ req.key \notin DOMAIN flags) =>
            /\ req'.status = 404 /\ req'.out = <<>>
            /\ flags' = flags
            /\ vlog' = vlog]_vars

\* A patch of a missing key was refused while another flag, patched before,
\* was stored.
C19_Witness ==
    /\ Returned("PUT /v1/flags/{key}", "beta", 404)
    /\ "welcome_banner" \in DOMAIN flags
    /\ flags["welcome_banner"].version = 2

(* ============================= unique keys ============================ *)

\* The rows of `key` that were stored and not deleted since.
LiveCount(key) ==
    Cardinality(StoredAt(key))
        - Cardinality({d \in DOMAIN vlog :
                          vlog[d].op = "delete" /\ vlog[d].row.key = key})

CreatesOf(key) == {i \in DOMAIN tasks : tasks[i].op = "create" /\ tasks[i].key = key}

StoredAtStart(key) ==
    \E i \in DOMAIN vlog : vlog[i].op = "stored" /\ vlog[i].row.key = key

\* C20: no two live flags have the same key, also with create requests for
\* one key in flight together: once they are answered, exactly one has
\* succeeded (none if the key had a flag before) and every other got 409.
C20_UniqueKey ==
    \A key \in FlagKeys :
        /\ LiveCount(key) = IF key \in DOMAIN flags THEN 1 ELSE 0
        /\ (\A i \in CreatesOf(key) : tasks[i].pc = "done") =>
                LET won == {i \in CreatesOf(key) : tasks[i].status = 201}
                IN /\ CreatesOf(key) # {} /\ ~StoredAtStart(key) => Cardinality(won) = 1
                   /\ StoredAtStart(key) => won = {}
                   /\ \A i \in CreatesOf(key) \ won : tasks[i].status = 409
                   /\ \A i \in won : tasks[i].out = <<flags[key]>>

\* Two creates of one key with different bodies, their statements
\* interleaved, were answered: the second to insert won nothing.
C20_Witness ==
    /\ tasks # <<>>
    /\ tasks[1].key = tasks[2].key
    /\ tasks[1].enabled # tasks[2].enabled
    /\ tasks[1].status = 409 /\ tasks[2].status = 201
    /\ tasks[2].out = <<flags[tasks[2].key]>>
    /\ tasks[2].out[1].enabled = 1

(* =========================== conditional reads ======================== *)

\* The records for which the tag presented with the request was issued.
IssuedFor(r) == {i.row : i \in {j \in issued : <<j.tag>> = r.inm /\ j.row.key = r.key}}

\* C21: a conditional read is answered 304 only when the record is the one
\* for which the presented tag was issued: after a successful patch a tag
\* issued before it gets the full response, and two records with one tag
\* can only cost a full response.
C21_AsClaimed ==
    \A key \in FlagKeys :
        Returned("GET /v1/flags/{key}", key, 304) =>
            \A row \in IssuedFor(req) : row = flags[key]

\* What the code decides on: the tag alone. 304 is answered exactly when the
\* presented tag is the tag of the stored record, whatever record it came from.
C21_TagOnly ==
    \A key \in FlagKeys :
        /\ Returned("GET /v1/flags/{key}", key, 304) =>
                req.inm = <<etagFrom(flags[key])>>
        /\ Returned("GET /v1/flags/{key}", key, 200) =>
                (req.inm # req.etag /\ req.etag = <<etagFrom(flags[key])>>)

\* Two records of one key, one the patch of the other, with the same tag.
C21_Collision ==
    \E i \in issued :
        /\ i.row.key \in DOMAIN flags
        /\ i.row # flags[i.row.key]
        /\ i.tag = etagFrom(flags[i.row.key])

(* ====================== admission of flag writes ====================== *)

WriteRoutes == {"POST /v1/flags", "PUT /v1/flags/{key}"}

\* The caller of the request has, in some scope, used up the limit of the
\* current window: its next counted check would be refused.
OverLimit(r) ==
    /\ env.DISABLE_RATE_LIMIT # "1"
    /\ \E scope \in {"eval", "flag", "items"} :
          LET bk == bucketKey(scope \o ":" \o callerOf(r.sent), NowFloor \div WINDOW)
          IN bk \in DOMAIN rlBuckets /\ rlBuckets[bk].count >= LIMIT

\* C22: a create or a patch passes the admission check before it touches
\* the table: for a caller over the limit in the current window the handler
\* answers 429 and leaves the table as it was.
C22_AsClaimed ==
    [][\A route \in WriteRoutes :
          (InHandler(route) /\ OverLimit(req)) =>
              (req'.status = 429 /\ flags' = flags /\ vlog' = vlog)]_vars

\* What the code does: the write handlers make no rateLimit call at all, set
\* no limit header and never answer 429.
C22_WritesUnmetered ==
    req.route \in WriteRoutes =>
        /\ req.rlc = 0 /\ req.hdr = NoHdr
        /\ req.status # 429
        /\ "AdmissionCheck" \notin {req.stages[i] : i \in DOMAIN req.stages}

(* ================== what an unauthenticated caller sees =============== *)

\* What the client receives: the status, the body and the headers.
ResponseOf(r) ==
    [status |-> r.status, out |-> r.out, hdr |-> r.hdr,
     retry_after |-> r.retry_after, etag |-> r.etag]

\* json(c, 401, { error: 'Unauthorized' })
UnauthorizedResponse ==
    [status |-> 401, out |-> <<>>, hdr |-> NoHdr, retry_after |-> <<>>,
     etag |-> <<>>]

\* C23: the response to a request with a missing or wrong key does not
\* depend on the stored data: whatever the flags table holds (the requested
\* flag or not) and whatever the rate-limit buckets hold, it is the one
\* Unauthorized response, so it is the same in any two runs.
C23_SameUnauthorized ==
    (req.pc = "done" /\ req.route \in ProdRoutes /\ BadKey(req)) =>
        ResponseOf(req) = UnauthorizedResponse

\* A read of a stored flag with a wrong key, after a counted request.
C23_Witness ==
    /\ req.pc = "done" /\ req.route = "GET /v1/flags/{key}"
    /\ req.sent # "" /\ BadKey(req)
    /\ req.key \in DOMAIN flags
    /\ rlBuckets # <<>>
    /\ ResponseOf(req) = UnauthorizedResponse

\* The same read when the flag is not stored and nothing was counted.
C23_WitnessMissing ==
    /\ req.pc = "done" /\ req.route = "GET /v1/flags/{key}"
    /\ BadKey(req)
    /\ req.key \notin DOMAIN flags
    /\ rlBuckets = <<>>
    /\ ResponseOf(req) = UnauthorizedResponse

(* ================= what a caller without key learns =================== *)

\* The bindings that differ from env in the value of the key only.
SameButKey(e) == [env EXCEPT !.API_KEY = e]

\* C24: no response to a request without key depends on the value of the
\* configured API key: under bindings that differ in that value only, the
\* request gets the response it gets here.
C24_AsClaimed ==
    (req.pc = "done" /\ req.route = "GET /debug/env") =>
        \A k \in KeyValues : req.out = <<debugEnvBody(SameButKey(k))>>

\* What GET /debug/env gives away: the first eight characters of the key,
\* and nothing of what follows them.
C24_PrefixOnly ==
    (req.pc = "done" /\ req.route = "GET /debug/env") =>
        \A k \in KeyValues :
            (req.out = <<debugEnvBody(SameButKey(k))>>)
                <=> (keyPrefix(k) = keyPrefix(env.API_KEY))

\* /demo/eval keeps to the claim: its decision is the one of the flag, the
\* user and the percentage, and the key is in no part of the response.
C24_DemoEval ==
    (req.pc = "done" /\ req.viaDemo /\ req.status = 200) =>
        /\ req.out[1].enabled =
                enabledFor(flags[req.key].enabled, uidOf(req.user), pctOf)
        /\ req.out[1].version = flags[req.key].version
        /\ req.hdr.limit = <<LIMIT>> /\ req.retry_after = <<>>

(* ========================= concurrent patches ========================= *)

PatchesOf(key) == {i \in DOMAIN tasks : tasks[i].op = "patch" /\ tasks[i].key = key}

\* The patches of `key` whose UPDATE has been run.
Applied(key) == {i \in PatchesOf(key) : tasks[i].pc # "update"}

\* C25: with patches of one key in flight together, in every interleaving of
\* their statements, no increment is lost: the version of the flag is its
\* version before them plus the number of patches applied, and once all are
\* answered that is the number of patches that succeeded.
C25_NoLostIncrement ==
    \A key \in FlagKeys :
        IF StoredAtStart(key)
        THEN /\ key \in DOMAIN flags
             /\ flags[key].version = 1 + Cardinality(Applied(key))
             /\ (\A i \in PatchesOf(key) : tasks[i].pc = "done") =>
                    flags[key].version =
                        1 + Cardinality({i \in PatchesOf(key) : tasks[i].status = 200})
        ELSE /\ key \notin DOMAIN flags
             /\ \A i \in PatchesOf(key) : tasks[i].pc = "done" => tasks[i].status = 404

\* Three patches of one key were in flight together, the first to be
\* answered was answered after all three were applied, and the version is 4.
C25_Witness ==
    /\ tasks # <<>>
    /\ \A i \in 1..MaxInFlight :
            i \in PatchesOf("welcome_banner") /\ tasks[i].status = 200
    /\ tasks[1].out[1].version >= 3
    /\ tasks[2].out[1].version = 2
    /\ flags["welcome_banner"].version >= 3

(* ====================== evaluations among patches ===================== *)

EvaluationsDone ==
    {i \in DOMAIN tasks : /\ tasks[i].op = "evaluate" /\ tasks[i].pc = "done"
                          /\ tasks[i].status = 200}

\* The states the flag of request i went through while the request was in
\* flight: the one it had at the start and the ones written up to the answer.
DuringRequest(i) ==
    LET t == tasks[i]
        mine == {j \in 1..t.to : vlog[j].row.key = t.key}
        first == CHOOSE j \in mine : j <= t.from /\ \A k \in mine : k <= t.from => k <= j
    IN {j \in mine : j >= first}

\* C26: the flag state an evaluation uses is the state at one read: with
\* patches of the flag in flight together with it, the enabled bit and the
\* version of the response are those of one state of the flag, a state it
\* had between the start and the end of the request.
C26_OneRead ==
    \A i \in EvaluationsDone :
        \E j \in DuringRequest(i) :
            /\ tasks[i].out[1].version = vlog[j].row.version
            /\ tasks[i].out[1].enabled =
                   enabledFor(vlog[j].row.enabled, uidOf(tasks[i].user), pctOf)

\* An evaluation started, a patch turned the flag over, the evaluation read
\* that state, and a second patch turned it back before the answer was seen.
C26_Witness ==
    /\ EvaluationsDone # {}
    /\ \E i \in EvaluationsDone :
          /\ tasks[i].from = 1 /\ tasks[i].to = 2 /\ Len(vlog) = 3
          /\ tasks[i].out[1].version = 2
          /\ tasks[i].out[1].enabled # (vlog[1].row.enabled # 0)
          /\ tasks[i].out[1].enabled # (flags[tasks[i].key].enabled # 0)

(* ======================= allowed and the counter ====================== *)

\* The last check was counted: it is not the answer of a disabled or
\* unconfigured limiter, nor of a store that failed.
Counted == rl.seq > 0 /\ rl.path = "counted"

\* C27: for every counted check, first in its window or not,
\* allowed = (count <= limit); the first check of a window has count 1, is
\* allowed when limit >= 1 and is rejected when the limit is 0.
C27_AsClaimed == Counted => (rl.ok <=> rl.count <= rl.limit)

\* What holds: the counter store's helpers compare every count with the
\* limit; the in-process helper compares every count but the first of a
\* window, which it allows whatever the limit.
C27_FirstAlwaysAllowed ==
    Counted =>
        /\ worker \in {"upstash", "edge"} => (rl.ok <=> rl.count <= rl.limit)
        /\ worker \in {"rs", "rs_src"} =>
              (rl.ok <=> (rl.count = 1 \/ rl.count <= rl.limit))
        /\ rl.nth = 1 => rl.count = 1

\* The in-process helper under limit 0 allowed the first check of a window.
C27_ZeroLimitAllowed ==
    /\ Counted /\ worker \in {"rs", "rs_src"}
    /\ rl.limit = 0 /\ rl.count = 1 /\ rl.ok

(* ======================= denied before the lookup ===================== *)

\* The admission check of the request in hand has denied it.
Denied(r) == IsEvaluate(r) /\ r.rlc > 0 /\ ~r.rlOk

\* C28: an evaluate request denied by the admission check performs no flag
\* lookup: it reads nothing of the relational store, and its answer is
\* RateLimited also when the flag asked for does not exist.
C28_DeniedBeforeLookup ==
    Denied(req) =>
        /\ req.db = 0
        /\ \A i \in DOMAIN req.stages : req.stages[i] # "FlagLookup"
        /\ req.row = <<>>
        /\ req.status = 429

\* A denied evaluation of a flag that does not exist was answered 429.
C28_Witness ==
    /\ Denied(req) /\ req.pc = "done"
    /\ req.key \notin DOMAIN flags
    /\ req.status = 429 /\ req.db = 0

(* ========================== concurrent checks ========================= *)

\* The checks whose increment has taken effect.
ChecksTaken ==
    {i \in DOMAIN tasks : tasks[i].op = "check" /\ tasks[i].path = "counted"}

\* The count the store holds for bucket b, none if it holds no such key.
StoredCount(b) ==
    IF worker = "rs"
    THEN (IF b \in DOMAIN rlBuckets THEN <<rlBuckets[b].count>> ELSE <<>>)
    ELSE (IF b \in DOMAIN redis THEN <<redis[b].count>> ELSE <<>>)

\* C29: with the counter store available, concurrent checks lose no
\* increment: for one (scope, caller) and one window the k-th check to take
\* effect returns count = k, no two checks of the window return the same
\* count, and the stored count is the number of checks made in the window.
C29_AsClaimed ==
    /\ \A i \in ChecksTaken : tasks[i].count = tasks[i].nth
    /\ \A i, j \in ChecksTaken :
          i # j /\ tasks[i].bucket = tasks[j].bucket =>
              tasks[i].count # tasks[j].count
    /\ \A b \in DOMAIN hist :
          StoredCount(b) # <<>> => StoredCount(b) = <<hist[b].n>>

\* The end of the window of check i, in milliseconds of the clock.
WindowEnd(i) == (tasks[i].windowId + 1) * WINDOW * MsPerSec

\* What holds: the in-process helper loses no increment, and the helper of
\* unnamed/part_001 loses none among the increments that take effect before
\* the window of the check is over; an increment that reaches the store
\* later may find the key of its window expired and start again from 1.
C29_LostOnlyWhenLate ==
    /\ worker = "rs" => C29_AsClaimed
    /\ \A i \in ChecksTaken :
          tasks[i].at < WindowEnd(i) => tasks[i].count = tasks[i].nth
    /\ \A i, j \in ChecksTaken :
          /\ i # j /\ tasks[i].bucket = tasks[j].bucket
          /\ tasks[i].at < WindowEnd(i) /\ tasks[j].at < WindowEnd(j)
          => tasks[i].count # tasks[j].count

\* Two checks of one window were both answered count 1.
C29_SameCountTwice ==
    \E i, j \in ChecksTaken :
        /\ i # j /\ tasks[i].bucket = tasks[j].bucket
        /\ tasks[i].pc = "done" /\ tasks[j].pc = "done"
        /\ tasks[i].count = 1 /\ tasks[j].count = 1

(* ========================= the end of the window ====================== *)

\* A step that is a counted check of the helpers of index.ts, src/index.ts
\* and unnamed/part_001.
CountedCheck == rl'.seq # rl.seq /\ rl'.path = "counted" /\ worker # "edge"

\* C30: for every counted check at time now, the window index is
\* floor(now / windowSeconds) and resetUnixTime is
\* (windowIndex + 1) * windowSeconds: it is greater than now and at most
\* now + windowSeconds, and all checks of one window return the same one.
C30_ResetIsWindowEnd ==
    [][CountedCheck =>
          LET now == NowFloor
              windowIndex == now \div rl'.windowSec
          IN /\ rl'.bucket = bucketKey(rl'.key, windowIndex)
             /\ rl'.resetUnix = (windowIndex + 1) * rl'.windowSec
             /\ rl'.resetUnix > now
             /\ rl'.resetUnix <= now + rl'.windowSec
             /\ (rl.path = "counted" /\ rl.bucket = rl'.bucket) =>
                    rl'.resetUnix = rl.resetUnix
             /\ worker \in {"rs", "rs_src"} =>
                    rlBuckets'[rl'.bucket].resetUnix = rl'.resetUnix]_vars

\* The second check of the second window, made inside the window and not at
\* its start, after a first check made at another second of that window.
C30_Witness ==
    /\ Counted /\ worker # "edge"
    /\ rl.windowId = 1 /\ rl.nth = 2
    /\ NowFloor > rl.windowId * rl.windowSec
    /\ rl.resetUnix = 2 * rl.windowSec
    /\ rl.resetUnix < NowFloor + rl.windowSec

(* ========================== ephemeral buckets ========================= *)

\* The buckets the limiter of the worker holds.
StoredBuckets ==
    IF worker \in {"rs", "rs_src"} THEN DOMAIN rlBuckets ELSE DOMAIN redis

\* The time at which bucket b is due to be removed, none if nothing removes
\* it: the in-process map has no delete, the store removes a key when its
\* time to live has run out.
RemovalTime(b) ==
    IF worker \in {"rs", "rs_src"} THEN NoExpiry ELSE redis[b].expireAt

\* C31: every bucket is ephemeral: it does not disappear before the end of
\* its window and it is removed once the window has elapsed, in the
\* in-process map and in the store, also when the expiry call after the
\* first increment fails; so every stored bucket is due to be removed.
C31_AsClaimed == \A b \in StoredBuckets : RemovalTime(b) # NoExpiry

\* What holds: a bucket of the store whose expiry call succeeded is due at or
\* after the end of its window and is gone once that time has come; no
\* bucket of any limiter is removed earlier.
C31_StoreExpires ==
    /\ [](\A b \in DOMAIN redis :
             redis[b].expireAt # NoExpiry => redis[b].expireAt[1] > clock)
    /\ [][\A b \in StoredBuckets :
             b \notin StoredBuckets' =>
                 RemovalTime(b) # NoExpiry /\ RemovalTime(b)[1] <= clock']_vars
    /\ [][(/\ rl'.seq # rl.seq /\ rl'.path = "counted" /\ rl'.count = 1
           /\ worker \in {"upstash", "edge"})
             => /\ redis'[rl'.bucket].expireAt # NoExpiry
                /\ redis'[rl'.bucket].expireAt[1]
                      >= (rl'.windowId + 1) * rl'.windowSec * MsPerSec]_vars

\* A bucket of the in-process map is held after its window has elapsed.
C31_MapKeeps ==
    /\ worker \in {"rs", "rs_src"}
    /\ \E b \in DOMAIN rlBuckets : rlBuckets[b].resetUnix * MsPerSec <= clock

\* A key of the store whose expiry call failed is held without time to live
\* after its window has elapsed.
C31_KeyWithoutExpiry ==
    /\ worker = "upstash"
    /\ rl.seq > 0 /\ rl.path = "expire_failed"
    /\ rl.bucket \in DOMAIN redis /\ redis[rl.bucket].expireAt = NoExpiry
    /\ clock >= (rl.windowId + 1) * rl.windowSec * MsPerSec

(* ===================== the contract of the check ====================== *)

\* The request in hand has called rateLimit under bindings that
\* EnvSchema.parse accepted.
CheckInvoked == req.rlc > 0 /\ EnvValid(env)

\* C32: for every environment the validation accepts, the check is invoked
\* with limit >= 1 and windowSeconds >= 1: a limit of 0 or a window of 0
\* never reaches the count comparison or the window-index division.
C32_AsClaimed == CheckInvoked => (LIMIT >= 1 /\ WINDOW >= 1)

\* Under RL_LIMIT = "0", which the validation accepts, a second request of
\* a window was counted, compared with the limit 0 and denied.
C32_ZeroLimitCompared ==
    /\ CheckInvoked /\ env.RL_LIMIT = <<0>>
    /\ req.rlCount = 2 /\ ~req.rlOk /\ req.status = 429

(* ==================== monotone in the percentage ====================== *)

\* The decision of the probe has been computed.
Applied33 == probe # <<>> /\ probe.bucket # <<>>

\* C33: the decision is monotone in the percentage: for a fixed flag state
\* and a fixed user id, a decision that is enabled at percentage p is
\* enabled at every p' with p <= p' <= 100.
C33_Monotone ==
    (Applied33 /\ probe.enabled = <<TRUE>>) =>
        \A q \in probe.pct..100 : enabledAt(probe.fe, probe.bucket[1], q)

\* A user who is on at 49 and off at 48: the least percentage at which the
\* user is on, and the user is on from there to 100.
C33_Witness ==
    /\ Applied33 /\ probe.enabled = <<TRUE>> /\ probe.pct = 49
    /\ ~enabledAt(probe.fe, probe.bucket[1], 48)
    /\ enabledAt(probe.fe, probe.bucket[1], 100)

(* ======================= one check, one bucket ======================== *)

\* C34: a check for one (scope, caller, window) changes that bucket only:
\* the count of every other caller, scope and window is left as it was, for
\* caller strings that hold ':' too; so the count a check returns is the
\* number of checks made for its own scope, caller and window.
C34_OnlyOwnBucket ==
    [][rl'.seq # rl.seq =>
          /\ \A b \in DOMAIN rlBuckets :
                b # rl'.bucket => b \in DOMAIN rlBuckets' /\ rlBuckets'[b] = rlBuckets[b]
          /\ DOMAIN rlBuckets' = DOMAIN rlBuckets \cup {rl'.bucket}
          /\ rlBuckets'[rl'.bucket].count = rl'.count
          /\ rl'.count = rl'.nth
          /\ \A t \in DOMAIN hist :
                t # <<rl'.key, rl'.windowId>> =>
                    rlBuckets'[bucketKey(t[1], t[2])].count = hist[t]]_vars

\* Checks of caller "key-good:0" in window 1 and of caller "key-good" in
\* window 0, scope eval, and a check of scope flag: each was counted 1.
C34_Witness ==
    /\ rl.seq = 3 /\ rl.count = 1
    /\ rl.key = "eval:key-good:0" /\ rl.windowId = 1
    /\ <<"eval:key-good", 0>> \in DOMAIN hist
    /\ <<"flag:key-good:0", 1>> \in DOMAIN hist
    /\ Cardinality(DOMAIN rlBuckets) = 3

(* =================== a patch and the record it returns ================ *)

PatchesDone == {i \in DOMAIN tasks : tasks[i].op = "patch" /\ tasks[i].pc = "done"}

\* C35: a patch answers 200 only if its own update changed the record it
\* returns, also with a create or an administrative delete of the key
\* between its update and its read-back: it never returns 200 with a
\* record it did not change, and never NotFound after it applied its update.
C35_AsClaimed ==
    \A i \in PatchesDone :
        /\ tasks[i].status = 200 =>
              /\ tasks[i].applied # <<>>
              /\ tasks[i].out[1].id = tasks[i].applied[1].id
              /\ tasks[i].out[1].version >= tasks[i].applied[1].version
        /\ tasks[i].status = 404 => tasks[i].applied = <<>>

\* What holds: a patch that returns 200 returns the record the key has at
\* its read-back, and one that returns NotFound found no record there,
\* whatever its own update did.
C35_ReadBackOnly ==
    [][\A i \in DOMAIN tasks :
          (tasks[i].op = "patch" /\ tasks[i].pc = "select" /\ tasks'[i].pc = "done") =>
              IF tasks[i].key \in DOMAIN flags
              THEN tasks'[i].status = 200 /\ tasks'[i].out = <<flags[tasks[i].key]>>
              ELSE tasks'[i].status = 404]_vars

\* A patch whose update found no record returned 200 with the record a
\* create stored meanwhile, at version 1.
C35_FreshRecord ==
    \E i \in PatchesDone :
        /\ tasks[i].status = 200 /\ tasks[i].applied = <<>>
        /\ tasks[i].out[1].version = 1

\* A patch whose update was applied returned NotFound: the record was
\* deleted before the read-back.
C35_NotFoundAfterUpdate ==
    \E i \in PatchesDone : tasks[i].status = 404 /\ tasks[i].applied # <<>>

\* A patch returned 200 with a record of another life of the key than the
\* one it changed: a delete and a create came between.
C35_OtherLife ==
    \E i \in PatchesDone :
        /\ tasks[i].status = 200 /\ tasks[i].applied # <<>>
        /\ tasks[i].out[1].id # tasks[i].applied[1].id

(* ===================== what an evaluation changes ==================== *)

\* A step of an evaluate request: the request in flight after the step is an
\* evaluation, and the step started it or moved it on.
EvalStep == IsEvaluate(req') /\ req' # req

\* `rl:eval:${caller}:${windowId}`, the bucket the request is counted in.
OwnBucket ==
    bucketKey(Scope("POST /v1/evaluate") \o ":" \o callerOf(req'.sent),
              NowFloor \div WINDOW)

\* The step is the one in which the handler answers with the status.
Answers(status) == req.status # status /\ req'.status = status

\* The tables and the counter store but for the request's own bucket.
EvalKeeps ==
    /\ flags' = flags /\ vlog' = vlog /\ events' = events
    /\ items' = items /\ nextId' = nextId /\ redis' = redis
    /\ \A b \in DOMAIN rlBuckets :
          b # OwnBucket => b \in DOMAIN rlBuckets' /\ rlBuckets'[b] = rlBuckets[b]
    /\ DOMAIN rlBuckets' \subseteq DOMAIN rlBuckets \cup {OwnBucket}

\* C36 as stated: whatever its outcome, an evaluate request leaves every
\* flag record and the event log unchanged, and the only state it changes
\* is the rate-limit bucket of its own caller and window.
\* (Fails on edge-api-worker-rs/index.ts, which counts its 401 and 429
\* answers in HTTP_401_TOTAL and HTTP_429_TOTAL.)
C36_AsClaimed ==
    [][EvalStep => (EvalKeeps /\ metrics' = metrics)]_vars

\* C36, amended: an evaluate request leaves every flag record, the event
\* log and the items unchanged; besides the rate-limit bucket of its own
\* caller and window it changes only the in-process totals of 401 and 429
\* answers of edge-api-worker-rs/index.ts, by one for an answer of that
\* kind, and edge-api-worker-rs/src/index.ts changes nothing else at all.
C36_ReadOnly ==
    [][EvalStep =>
         /\ EvalKeeps
         /\ \/ metrics' = metrics /\ ~(worker = "rs" /\ Answers(401))
                                  /\ ~(worker = "rs" /\ Answers(429))
            \/ /\ worker = "rs" /\ Answers(401)
               /\ metrics' = [metrics EXCEPT !.http_401_total = @ + 1]
            \/ /\ worker = "rs" /\ Answers(429)
               /\ metrics' = [metrics EXCEPT !.http_429_total = @ + 1]]_vars

\* An evaluation of index.ts was denied with flags in the table: its bucket
\* is over the limit and the denial was counted in HTTP_429_TOTAL.
C36_Witness ==
    /\ worker = "rs" /\ IsEvaluate(req) /\ req.pc = "done" /\ req.status = 429
    /\ flags # <<>> /\ metrics.http_429_total = 1
    /\ \E b \in DOMAIN rlBuckets : rlBuckets[b].count > LIMIT

(* ============== /demo/eval and the bucket of the API key ============== *)

\* GET /demo/eval?flag=..&user=.. and POST /v1/evaluate sent with the
\* configured key, for a stored and for an unknown flag.
DemoInputs ==
    {[route |-> r, key |-> k, user |-> User("user-123"),
      description |-> <<>>, enabled |-> <<>>, nevents |-> 0, inm |-> <<>>] :
        r \in {"GET /demo/eval", "POST /v1/evaluate"},
        k \in {"welcome_banner", "beta"}}

BeginDemo == Begin(DemoInputs, {Want}, MaxEvals)

NextDemo ==
    \/ Tick
    \/ BeginDemo
    \/ Demo
    \/ Authenticate
    \/ AdmissionCheck
    \/ FlagLookup
    \/ Decide
    \/ Respond
    \/ DemoWrap

SpecDemo == Init /\ [][NextDemo]_vars

\* `rl:eval:${want}:${windowId}`: the bucket of evaluate calls made with the
\* configured key, in the window of the clock.
SharedBucket ==
    bucketKey(Scope("POST /v1/evaluate") \o ":" \o Want, NowFloor \div WINDOW)

Held == IF SharedBucket \in DOMAIN rlBuckets THEN rlBuckets[SharedBucket].count ELSE 0

\* The step in which the admission check of an evaluation runs, made
\* through /demo/eval or sent with the key.
Admits == IsEvaluate(req) /\ req.pc = "admit" /\ req' # req

\* What the check does to the shared bucket and to the request.
CountedInShared ==
    /\ SharedBucket \in DOMAIN rlBuckets'
    /\ rlBuckets'[SharedBucket].count = Held + 1
    /\ (Held >= 1 /\ Held + 1 > LIMIT)
          => (req'.status = 429 /\ req'.pc = IF req.viaDemo THEN "wrap" ELSE "done")

\* C37 as stated: every evaluation made through /demo/eval and every
\* evaluate call made with the configured key raises the count of one and
\* the same bucket by one, and both are denied once that bucket is over the
\* limit, until the window ends.
\* (Fails with DISABLE_RATE_LIMIT = "1", where no evaluation is counted.)
C37_AsClaimed ==
    [][Admits => CountedInShared]_vars

\* C37, amended: with rate limiting enabled, every evaluation made through
\* /demo/eval and every evaluate call made with the configured key raises
\* the count of the bucket of that key and the current window by one, and a
\* check that finds the bucket at or over the limit answers 429 to either
\* kind of request; the response of /demo/eval carries that status.
C37_SharedBucket ==
    /\ [][(Admits /\ env.DISABLE_RATE_LIMIT # "1") => CountedInShared]_vars
    /\ [](req.viaDemo /\ req.pc = "done" /\ req.rlc > 0 /\ ~req.rlOk
             => req.status = 429)

\* A demo evaluation was denied: it was the one that took the bucket of the
\* key over the limit, after evaluations that were allowed.
C37_Witness ==
    /\ req.viaDemo /\ req.pc = "done" /\ req.status = 429
    /\ env.DISABLE_RATE_LIMIT # "1"
    /\ req.sent = Want /\ req.n = LIMIT + 1
    /\ SharedBucket \in DOMAIN rlBuckets
    /\ rlBuckets[SharedBucket].count = LIMIT + 1

\* An evaluate call sent with the key was denied in a deployment whose demo
\* is on, in a bucket that demo evaluations share.
C37_KeyDenied ==
    /\ ~req.viaDemo /\ IsEvaluate(req) /\ req.pc = "done" /\ req.status = 429
    /\ demoOn /\ Held = LIMIT + 1

(* ================== the caller a request is counted under ============= *)

\* The cf-connecting-ip header of a request: absent, or the address the
\* edge saw.
Addresses == {"", "203.0.113.7"}

\* The routes of /v1 that call rateLimit.
LimitedRoutes(w) == {r \in Routes(w) : Scope(r) # ""}

\* A request to a rate-limited route, with or without a key and an address.
BeginCaller ==
    /\ req.pc \in {"idle", "done"}
    /\ req.n < MaxReqs
    /\ \E route \in LimitedRoutes(worker), sent \in SentKeys, ip \in Addresses :
          \E in \in {i \in Inputs(route) : i.key \in {"", "welcome_banner"}} :
              req' = [Arrive(in, sent) EXCEPT !.ip = ip]
    /\ UNCHANGED <<rlVars, auxVars, flags, events, items, nextId, memo>>

NextCaller ==
    \/ Tick
    \/ BeginCaller
    \/ Authenticate
    \/ AdmissionCheck
    \/ FlagLookup
    \/ Decide
    \/ Respond
    \/ GetFlag
    \/ ListItems
    \/ CreateItem

SpecCaller == InitEval /\ [][NextCaller]_vars

\* The buckets of the configured key, one for a scope and a window.
KeyBuckets ==
    {bucketKey(scope \o ":" \o Want, w) :
        scope \in {"eval", "flag", "items"}, w \in 0..MaxTime}

\* C38: the caller of a request is its x-api-key when it has one, else its
\* cf-connecting-ip, else "anon"; the admission check of a production route
\* runs only for a request whose key is the configured one, so every bucket
\* is one of that key and a request without the key, with or without an
\* address, is never counted.
C38_CallerIsKey ==
    /\ [](req.pc # "idle" =>
            /\ req.sent # "" => callerOf(req.sent) = req.sent
            /\ (req.sent = "" /\ req.ip # "") => callerOf(req.sent) = req.ip
            /\ (req.sent = "" /\ req.ip = "") => callerOf(req.sent) = "anon")
    /\ [](DOMAIN rlBuckets \subseteq KeyBuckets)
    /\ [](req.rlc > 0 => (req.sent = Want /\ callerOf(req.sent) = Want))
    /\ [][rlBuckets' # rlBuckets =>
            /\ req.sent = Want
            /\ \A b \in DOMAIN rlBuckets' :
                  (b \notin DOMAIN rlBuckets \/ rlBuckets'[b] # rlBuckets[b])
                     => b = bucketKey(Scope(req.route) \o ":" \o Want,
                                      NowFloor \div WINDOW)]_vars

\* A request that carried the key and an address was counted under the key,
\* after a request with the address and no key that was answered 401.
C38_Witness ==
    /\ req.n = 2 /\ req.pc = "done" /\ req.rlc = 1
    /\ req.sent = Want /\ req.ip # ""
    /\ metrics.http_401_total = 1
    /\ DOMAIN rlBuckets =
          {bucketKey(Scope(req.route) \o ":" \o Want, NowFloor \div WINDOW)}

====
